---- MODULE Spec2Model ----
(***************************************************************************)
(* Verification model of the PRGR launch-monitor perception core.          *)
(*                                                                         *)
(*   KLD2Manager        Doppler radar trigger (ball / club policy)         *)
(*   CaptureManager     hybrid radar + camera capture loop                 *)
(*   CameraCalibration  live ball tracking and ball zone state machine     *)
(*   BallTracker        armed / triggered / tracking session               *)
(*   AutoExposureController  rate-limited shutter / gain feedback loop     *)
(*                                                                         *)
(* Speeds are whole mph, as parsed by KLD2Manager::parseResponse.  The two *)
(* trigger thresholds are C++ doubles; they are held in tenths of a mph so *)
(* that a non-integer threshold (12.5 mph = 125) is representable, and     *)
(* static_cast<int> is the truncation CastInt.                             *)
(***************************************************************************)
EXTENDS Integers, Sequences, FiniteSets, TLC

VARIABLES
    \* ---- KLD2Manager (include/KLD2Manager.h:78-89)
    kld2_isRunning,          \* KLD2Manager::m_isRunning
    m_minTriggerSpeed,       \* club threshold, tenths of mph
    m_minBallTriggerSpeed,   \* ball threshold, tenths of mph
    m_triggerMode,           \* "ball" or "club"
    m_inSwing,
    m_maxClubSpeed,
    m_ballDetected,
    emitted,                 \* signals emitted by the latest KLD2Manager call
    ballRun,                 \* history: length (capped) of the current run of
                             \* ball-mode readings meeting the ball condition
    swingMax,                \* history: largest approaching speed processed
                             \* since the current swing started (0: no swing)
    \* ---- CaptureManager (include/CaptureManager.h:78-85, CaptureManager.cpp:191-194)
    m_isRunning,             \* std::atomic<bool> CaptureManager::m_isRunning
    m_stopping,
    m_kld2Triggered,
    m_kld2ImpactDetected,
    m_waitingForImpact,
    m_useKLD2Trigger,
    mainPc,                  \* GUI thread: "idle", or "joining" inside stopCapture
    pc,                      \* capture thread position in captureLoop
    ballLocked,
    originalBall,
    shotNumber,
    shotLog,                 \* every shotCaptured(n) emitted so far, in order
    sessionBase,             \* history: Len(shotLog) when the running loop started
    credit,                  \* history: 1 once an impact notification has arrived,
                             \* less one for every shotCaptured emitted since
    impactAge,               \* history: frames processed since the impact flag was
                             \* last set by onKLD2Impact (saturating)
    \* ---- CameraCalibration live tracking (include/CameraCalibration.h:202-254)
    m_liveTrackingInitialized,
    m_kalmanInitialized,
    m_trackingConfidence,
    m_missedFrames,
    m_smoothedBallX,         \* positions and velocities in hundredths of a pixel
    m_smoothedBallY,
    m_ballVelocityX,
    m_ballVelocityY,
    m_lastBallRadius,
    m_isZoneDefined,
    m_zoneCorners,
    m_ballZoneState,
    m_isArmed,
    m_ballPositionHistory,
    m_stableStartTime,
    m_impactTime,
    zoneRun,                 \* history: positions of the current run of detected-in-zone updates
    stableEntered,           \* history: the time the state last entered BALL_IN_ZONE_STABLE
    now,                     \* QDateTime::currentMSecsSinceEpoch()
    result,                  \* the map returned by the latest detectBallLive
    moves,                   \* history: frames that showed the ball displaced
    \* ---- BallTracker (include/BallTracker.h:103-140)
    m_state,
    timerActive,             \* m_processTimer->isActive()
    m_framesSinceArmed,
    m_frameNumber,
    frameBufferSize,         \* m_frameBuffer.size()
    m_trackedPositions,
    m_minTrackingFrames,
    m_maxTrackingFrames,
    trackerSignals,          \* signals emitted by the latest BallTracker call
    latestFrame,             \* alternates with every frame the camera delivers
    \* ---- AutoExposureController (include/AutoExposureController.h:106-138)
    m_zone_center_x,
    m_zone_center_y,
    m_zone_radius,
    m_zone_defined,
    m_target_min,
    m_target_max,
    m_target_ideal,
    m_min_shutter,
    m_max_shutter,
    m_min_gain,              \* gains are held in 1/GainUnit
    m_max_gain,
    m_current_shutter,
    m_current_gain,
    m_current_mode,
    m_auto_enabled,
    m_adjustment_speed,      \* held in 1/SpeedUnit
    sinceAdjustment,         \* steady_clock::now() - m_last_adjustment_time in ms,
                             \* saturating at the minimum adjustment interval
    m_brightness_history,
    m_history_count,
    m_history_index,
    adjustment,              \* the AdjustmentResult returned by the latest update
    sinceMutation,           \* history: ms (saturating) since an update last wrote
                             \* shutter, gain or the brightness history
    aeUpdates,               \* history: updates (capped) that reached the measurement
    configCalls,             \* history: configuration calls (capped) made so far
    \* ---- stateless helpers (fast_detection, isBallStable)
    called,                  \* the function applied last, "none" before the first call
    input,                   \* its arguments
    output,                  \* what it returned
    \* ---- KLD2Radar of the standalone test program (test_radar.cpp)
    inSwing_,
    maxClubSpeed_,
    ballDetected_,
    impactsDetected_,
    \* ---- TrajectoryTracker
    m_isTracking,
    m_trajectoryPoints,      \* sequence of [x, timestamp]; every point has the same y
    m_launchAngleVertical,   \* degrees
    m_launchAngleHorizontal, \* degrees
    m_ballSpeedMps,          \* held in 1/SpeedScale
    m_launchMetricsCalculated,
    trackingStopped,         \* the arguments of the latest trackingStopped, <<>> if none
    updateReturned,          \* what the latest updateTracking returned, "none" if none
    trackingSessions,        \* history: startTracking calls (capped) made so far
    \* ---- BallDetector
    m_backgroundSubtractionEnabled,
    m_background,            \* TRUE when a background frame is held (not empty)
    m_detectionHistory,      \* the frame numbers of the entries, front first
    trackBallFrames,         \* history: frames handed to trackBall so far
    trackBallReturned,       \* what the latest trackBall returned, "none" if none
    trackBallMisses          \* history: trackBall calls (capped) that returned false

kvars == <<kld2_isRunning, m_minTriggerSpeed, m_minBallTriggerSpeed, m_triggerMode,
           m_inSwing, m_maxClubSpeed, m_ballDetected, emitted, ballRun, swingMax>>

flagvars == <<m_kld2Triggered, m_kld2ImpactDetected, m_waitingForImpact>>

loopvars == <<m_isRunning, m_stopping, m_useKLD2Trigger, mainPc, pc, ballLocked,
              originalBall, shotNumber, shotLog, sessionBase>>

histvars == <<credit, impactAge>>

cvars == <<flagvars, loopvars, histvars>>

trackvars == <<m_liveTrackingInitialized, m_kalmanInitialized, m_trackingConfidence,
               m_missedFrames, m_smoothedBallX, m_smoothedBallY, m_ballVelocityX,
               m_ballVelocityY, m_lastBallRadius>>

zonevars == <<m_isZoneDefined, m_zoneCorners>>

statevars == <<m_ballZoneState, m_isArmed, m_ballPositionHistory, m_stableStartTime,
               m_impactTime, zoneRun, stableEntered>>

lvars == <<trackvars, zonevars, statevars, now, result, moves>>

bvars == <<m_state, timerActive, m_framesSinceArmed, m_frameNumber, frameBufferSize,
           m_trackedPositions, m_minTrackingFrames, m_maxTrackingFrames, trackerSignals,
           latestFrame>>

zonecfg == <<m_zone_center_x, m_zone_center_y, m_zone_radius, m_zone_defined>>

targetcfg == <<m_target_min, m_target_max, m_target_ideal>>

limitcfg == <<m_min_shutter, m_max_shutter, m_min_gain, m_max_gain>>

exposure == <<m_current_shutter, m_current_gain>>

ringvars == <<m_brightness_history, m_history_count, m_history_index>>

evars == <<zonecfg, targetcfg, limitcfg, exposure, m_current_mode, m_auto_enabled,
           m_adjustment_speed, sinceAdjustment, ringvars, adjustment, sinceMutation,
           aeUpdates, configCalls>>

fvars == <<called, input, output>>

toolvars == <<inSwing_, maxClubSpeed_, ballDetected_, impactsDetected_>>

trajvars == <<m_isTracking, m_trajectoryPoints, m_launchAngleVertical,
              m_launchAngleHorizontal, m_ballSpeedMps, m_launchMetricsCalculated,
              trackingStopped, updateReturned, trackingSessions>>

detvars == <<m_backgroundSubtractionEnabled, m_background, m_detectionHistory,
             trackBallFrames, trackBallReturned, trackBallMisses>>

xvars == <<toolvars, trajvars, detvars>>

\* what the radar and capture actions leave alone
othervars == <<lvars, bvars, evars, fvars, xvars>>

vars == <<kvars, cvars, lvars, bvars, evars, fvars, xvars>>

\* what a call of a stateless helper leaves alone
notcalls == <<kvars, cvars, lvars, bvars, evars, xvars>>

Min(a, b) == IF a < b THEN a ELSE b
Max(a, b) == IF a > b THEN a ELSE b

(***************************************************************************)
(* Bounds of the model and program constants.                              *)
(***************************************************************************)
MaxRun == 2              \* cap of the ballRun history counter
MaxShots == 2            \* shotCaptured emissions explored
WindowFrames == 2        \* an agreement window, in frames, for the stale-flag check
MaxAge == 3              \* cap of impactAge

DefaultMinTriggerSpeed == 500       \* 50.0 mph
DefaultMinBallTriggerSpeed == 120   \* 12.0 mph

ApproachSpeeds == {0, 49, 50, 60}
RecedeSpeeds == {0, 11, 12, 13}
ClubThresholds == {500, 600}
BallThresholds == {120, 125}
Modes == {"ball", "club"}
\* the strings setTriggerMode is offered: it stores any string
TriggerModeStrings == Modes \cup {"both"}

DetectionSignals == {"ballDetected", "impactDetected", "clubApproaching", "detectionTriggered"}

(***************************************************************************)
(* KLD2Manager                                                             *)
(***************************************************************************)
CastInt(t) == t \div 10

\* the conditions of KLD2Manager.cpp:228 and :253
BallCondition(recedingSpeed) == recedingSpeed >= CastInt(m_minBallTriggerSpeed)
ClubCondition(approachingSpeed) == approachingSpeed >= CastInt(m_minTriggerSpeed)

SpeedSignals(approachingSpeed, recedingSpeed) ==
    (IF approachingSpeed > 0 THEN {"clubSpeedUpdated"} ELSE {})
        \cup (IF recedingSpeed > 0 THEN {"ballSpeedUpdated"} ELSE {})

\* CaptureManager's slots, connected in its constructor to clubApproaching and
\* impactDetected (direct connections: both objects live in the GUI thread).
SlotsRun(signals) ==
    /\ m_kld2Triggered' = IF "clubApproaching" \in signals THEN TRUE ELSE m_kld2Triggered
    /\ m_waitingForImpact' = IF "clubApproaching" \in signals THEN TRUE ELSE m_waitingForImpact
    /\ m_kld2ImpactDetected' = IF "impactDetected" \in signals THEN TRUE ELSE m_kld2ImpactDetected
    /\ credit' = IF "impactDetected" \in signals THEN 1 ELSE credit
    /\ impactAge' = IF "impactDetected" \in signals THEN 0 ELSE impactAge

ProcessSpeedBallLatchless(approachingSpeed, recedingSpeed) ==
    /\ m_ballDetected' = BallCondition(recedingSpeed)
    /\ emitted' = SpeedSignals(approachingSpeed, recedingSpeed)
                    \cup (IF BallCondition(recedingSpeed)
                          THEN {"ballDetected", "impactDetected"} ELSE {})
    /\ UNCHANGED <<m_inSwing, m_maxClubSpeed>>

ProcessSpeedBall(approachingSpeed, recedingSpeed) ==
    /\ IF BallCondition(recedingSpeed)
       THEN IF ~m_ballDetected
            THEN /\ m_ballDetected' = TRUE
                 /\ emitted' = SpeedSignals(approachingSpeed, recedingSpeed)
                                 \cup {"ballDetected", "impactDetected"}
            ELSE /\ m_ballDetected' = m_ballDetected
                 /\ emitted' = SpeedSignals(approachingSpeed, recedingSpeed)
       ELSE /\ m_ballDetected' = FALSE
            /\ emitted' = SpeedSignals(approachingSpeed, recedingSpeed)
    /\ UNCHANGED <<m_inSwing, m_maxClubSpeed>>

ProcessSpeedClubNoPeak(approachingSpeed, recedingSpeed) ==
    /\ IF ClubCondition(approachingSpeed)
       THEN IF ~m_inSwing
            THEN /\ m_inSwing' = TRUE
                 /\ m_maxClubSpeed' = approachingSpeed
                 /\ emitted' = SpeedSignals(approachingSpeed, recedingSpeed)
                                 \cup {"clubApproaching", "detectionTriggered"}
            ELSE /\ UNCHANGED <<m_inSwing, m_maxClubSpeed>>
                 /\ emitted' = SpeedSignals(approachingSpeed, recedingSpeed)
       ELSE IF m_inSwing
            THEN /\ emitted' = SpeedSignals(approachingSpeed, recedingSpeed)
                                 \cup {"impactDetected"}
                 /\ m_inSwing' = FALSE
                 /\ m_maxClubSpeed' = 0
            ELSE /\ emitted' = SpeedSignals(approachingSpeed, recedingSpeed)
                 /\ UNCHANGED <<m_inSwing, m_maxClubSpeed>>
    /\ UNCHANGED m_ballDetected

ProcessSpeedClub(approachingSpeed, recedingSpeed) ==
    /\ IF ClubCondition(approachingSpeed)
       THEN IF ~m_inSwing
            THEN /\ m_inSwing' = TRUE
                 /\ m_maxClubSpeed' = approachingSpeed
                 /\ emitted' = SpeedSignals(approachingSpeed, recedingSpeed)
                                 \cup {"clubApproaching", "detectionTriggered"}
            ELSE /\ m_inSwing' = m_inSwing
                 /\ m_maxClubSpeed' = IF approachingSpeed > m_maxClubSpeed
                                      THEN approachingSpeed ELSE m_maxClubSpeed
                 /\ emitted' = SpeedSignals(approachingSpeed, recedingSpeed)
       ELSE IF m_inSwing
            THEN /\ emitted' = SpeedSignals(approachingSpeed, recedingSpeed)
                                 \cup {"impactDetected"}
                 /\ m_inSwing' = FALSE
                 /\ m_maxClubSpeed' = 0
            ELSE /\ emitted' = SpeedSignals(approachingSpeed, recedingSpeed)
                 /\ UNCHANGED <<m_inSwing, m_maxClubSpeed>>
    /\ UNCHANGED m_ballDetected

\* History of the readings themselves, kept apart from the manager's own flags.
ReadingHistory(approachingSpeed, recedingSpeed) ==
    /\ ballRun' = IF m_triggerMode = "ball" /\ BallCondition(recedingSpeed)
                  THEN Min(ballRun + 1, MaxRun) ELSE 0
    /\ swingMax' = IF m_triggerMode = "club" /\ ClubCondition(approachingSpeed)
                   THEN Max(swingMax, approachingSpeed) ELSE 0

\* processSpeed with the club branch taken for every mode that is not "ball"
ProcessSpeedElseClub(approachingSpeed, recedingSpeed) ==
    /\ UNCHANGED othervars
    /\ kld2_isRunning
    /\ mainPc = "idle"
    /\ IF m_triggerMode = "ball"
       THEN ProcessSpeedBall(approachingSpeed, recedingSpeed)
       ELSE ProcessSpeedClub(approachingSpeed, recedingSpeed)
    /\ ReadingHistory(approachingSpeed, recedingSpeed)
    /\ SlotsRun(emitted')
    /\ UNCHANGED <<kld2_isRunning, m_minTriggerSpeed, m_minBallTriggerSpeed, m_triggerMode>>
    /\ UNCHANGED loopvars

\* KLD2Manager::processSpeed, reached from handleSerialData while the port is open
ProcessSpeedBody(approachingSpeed, recedingSpeed) ==
    /\ kld2_isRunning
    /\ mainPc = "idle"
    /\ IF m_triggerMode = "ball"
       THEN ProcessSpeedBall(approachingSpeed, recedingSpeed)
       ELSE IF m_triggerMode = "club"
            THEN ProcessSpeedClub(approachingSpeed, recedingSpeed)
            ELSE /\ emitted' = SpeedSignals(approachingSpeed, recedingSpeed)
                 /\ UNCHANGED <<m_inSwing, m_maxClubSpeed, m_ballDetected>>
    /\ ReadingHistory(approachingSpeed, recedingSpeed)
    /\ SlotsRun(emitted')
    /\ UNCHANGED <<kld2_isRunning, m_minTriggerSpeed, m_minBallTriggerSpeed, m_triggerMode>>
    /\ UNCHANGED loopvars

ProcessSpeed(approachingSpeed, recedingSpeed) ==
    /\ UNCHANGED othervars
    /\ ProcessSpeedBody(approachingSpeed, recedingSpeed)

SetMinTriggerSpeed(speed) ==
    /\ UNCHANGED othervars
    /\ mainPc = "idle"
    /\ m_minTriggerSpeed # speed
    /\ m_minTriggerSpeed' = speed
    /\ emitted' = {"minTriggerSpeedChanged"}
    /\ UNCHANGED <<kld2_isRunning, m_minBallTriggerSpeed, m_triggerMode, m_inSwing,
                   m_maxClubSpeed, m_ballDetected, ballRun, swingMax>>
    /\ UNCHANGED cvars

SetMinBallTriggerSpeed(speed) ==
    /\ UNCHANGED othervars
    /\ mainPc = "idle"
    /\ m_minBallTriggerSpeed # speed
    /\ m_minBallTriggerSpeed' = speed
    /\ emitted' = {"minBallTriggerSpeedChanged"}
    /\ UNCHANGED <<kld2_isRunning, m_minTriggerSpeed, m_triggerMode, m_inSwing,
                   m_maxClubSpeed, m_ballDetected, ballRun, swingMax>>
    /\ UNCHANGED cvars

SetTriggerMode(mode) ==
    /\ UNCHANGED othervars
    /\ mainPc = "idle"
    /\ m_triggerMode # mode
    /\ m_triggerMode' = mode
    /\ m_inSwing' = FALSE
    /\ m_maxClubSpeed' = 0
    /\ m_ballDetected' = FALSE
    /\ emitted' = {"triggerModeChanged"}
    /\ ballRun' = 0
    /\ swingMax' = 0
    /\ UNCHANGED <<kld2_isRunning, m_minTriggerSpeed, m_minBallTriggerSpeed>>
    /\ UNCHANGED cvars

\* the body of KLD2Manager::start: the serial port opens (ok) or no candidate does
KLD2StartBody(ok) ==
    IF kld2_isRunning
    THEN UNCHANGED <<kld2_isRunning, emitted>>
    ELSE /\ kld2_isRunning' = ok
         /\ emitted' = IF ok THEN {"isRunningChanged", "statusChanged"} ELSE {"statusChanged"}

\* the body of KLD2Manager::stop
KLD2StopBody ==
    IF ~kld2_isRunning
    THEN UNCHANGED <<kld2_isRunning, m_inSwing, m_maxClubSpeed, m_ballDetected, emitted,
                     ballRun, swingMax>>
    ELSE /\ kld2_isRunning' = FALSE
         /\ m_inSwing' = FALSE
         /\ m_maxClubSpeed' = 0
         /\ m_ballDetected' = FALSE
         /\ emitted' = {"isRunningChanged", "statusChanged"}
         /\ ballRun' = 0
         /\ swingMax' = 0

KLD2Start(ok) ==
    /\ UNCHANGED othervars
    /\ mainPc = "idle"
    /\ ~kld2_isRunning
    /\ KLD2StartBody(ok)
    /\ UNCHANGED <<m_minTriggerSpeed, m_minBallTriggerSpeed, m_triggerMode, m_inSwing,
                   m_maxClubSpeed, m_ballDetected, ballRun, swingMax>>
    /\ UNCHANGED cvars

KLD2Stop ==
    /\ UNCHANGED othervars
    /\ mainPc = "idle"
    /\ kld2_isRunning
    /\ KLD2StopBody
    /\ UNCHANGED <<m_minTriggerSpeed, m_minBallTriggerSpeed, m_triggerMode>>
    /\ UNCHANGED cvars

KInit ==
    /\ kld2_isRunning = FALSE
    /\ m_minTriggerSpeed = DefaultMinTriggerSpeed
    /\ m_minBallTriggerSpeed = DefaultMinBallTriggerSpeed
    /\ m_triggerMode = "ball"
    /\ m_inSwing = FALSE
    /\ m_maxClubSpeed = 0
    /\ m_ballDetected = FALSE
    /\ emitted = {}
    /\ ballRun = 0
    /\ swingMax = 0

CInit ==
    /\ m_isRunning = FALSE
    /\ m_stopping = FALSE
    /\ m_kld2Triggered = FALSE
    /\ m_kld2ImpactDetected = FALSE
    /\ m_waitingForImpact = FALSE
    /\ m_useKLD2Trigger = TRUE
    /\ mainPc = "idle"
    /\ pc = "none"
    /\ ballLocked = FALSE
    /\ originalBall = [x |-> -1, y |-> -1, radius |-> -1]
    /\ shotNumber = 1
    /\ shotLog = <<>>
    /\ sessionBase = 0
    /\ credit = 0
    /\ impactAge = 0

(***************************************************************************)
(* CaptureManager: the capture thread (captureLoop) and the GUI-thread     *)
(* slots startCapture / stopCapture.  A detection is the BallDetection     *)
(* returned by detectBall for one frame; NoBall is its "no circle" value.  *)
(* The replay frame buffer and the replay files are not modelled.          *)
(***************************************************************************)
ImpactThreshold == 10     \* settings default, CaptureManager.cpp:133
ImpactAxis == 1           \* settings default, CaptureManager.cpp:134
ImpactDirection == 1      \* settings default, CaptureManager.cpp:135
SameBallDistance == 50    \* CaptureManager.cpp:383

NoBall == [x |-> -1, y |-> -1, radius |-> -1]
BallAt(px, py) == [x |-> px, y |-> py, radius |-> 8]
Detections == {NoBall} \cup {BallAt(100, py) : py \in {100, 110, 120, 160}}

Abs(n) == IF n < 0 THEN -n ELSE n

\* int distance = std::sqrt(dx*dx + dy*dy): the square root truncated to an
\* int; it never exceeds |dx| + |dy|, which bounds the search
TruncatedDistance(dx, dy) ==
    CHOOSE k \in 0..(Abs(dx) + Abs(dy)) :
        k * k <= dx * dx + dy * dy /\ (k + 1) * (k + 1) > dx * dx + dy * dy

isSameBall(a, b) ==
    IF a.radius < 0 \/ b.radius < 0
    THEN FALSE
    ELSE TruncatedDistance(a.x - b.x, a.y - b.y) < SameBallDistance

detectImpactInclusive(original, current, threshold, axis, direction) ==
    IF original.radius < 0 \/ current.radius < 0
    THEN FALSE
    ELSE (IF axis = 0 THEN (current.x - original.x) * direction
                      ELSE (current.y - original.y) * direction) >= threshold

detectImpact(original, current, threshold, axis, direction) ==
    IF original.radius < 0 \/ current.radius < 0
    THEN FALSE
    ELSE (IF axis = 0 THEN (current.x - original.x) * direction
                      ELSE (current.y - original.y) * direction) > threshold

\* CaptureManager::startCapture; ok: whether the radar's serial port opens
StartCapture(ok) ==
    /\ UNCHANGED othervars
    /\ mainPc = "idle"
    /\ ~m_isRunning
    /\ pc \in {"none", "done"}
    /\ m_kld2Triggered' = FALSE
    /\ m_kld2ImpactDetected' = FALSE
    /\ m_waitingForImpact' = FALSE
    /\ m_stopping' = FALSE
    /\ IF m_useKLD2Trigger
       THEN /\ KLD2StartBody(ok)
            /\ m_useKLD2Trigger' = kld2_isRunning'
       ELSE UNCHANGED <<kld2_isRunning, emitted, m_useKLD2Trigger>>
    /\ m_isRunning' = TRUE
    /\ pc' = "setup"
    /\ UNCHANGED <<m_minTriggerSpeed, m_minBallTriggerSpeed, m_triggerMode, m_inSwing,
                   m_maxClubSpeed, m_ballDetected, ballRun, swingMax>>
    /\ UNCHANGED <<mainPc, ballLocked, originalBall, shotNumber, shotLog, sessionBase>>
    /\ UNCHANGED histvars

\* CaptureManager::stopCapture up to m_captureThread->wait
StopCapture ==
    /\ UNCHANGED othervars
    /\ mainPc = "idle"
    /\ m_isRunning
    /\ m_stopping' = TRUE
    /\ m_isRunning' = FALSE
    /\ mainPc' = "joining"
    /\ UNCHANGED kvars
    /\ UNCHANGED flagvars
    /\ UNCHANGED <<m_useKLD2Trigger, pc, ballLocked, originalBall, shotNumber, shotLog,
                   sessionBase>>
    /\ UNCHANGED histvars

\* CaptureManager::stopCapture after the capture thread has left captureLoop
StopJoin ==
    /\ UNCHANGED othervars
    /\ mainPc = "joining"
    /\ pc = "done"
    /\ KLD2StopBody
    /\ mainPc' = "idle"
    /\ UNCHANGED <<m_minTriggerSpeed, m_minBallTriggerSpeed, m_triggerMode>>
    /\ UNCHANGED flagvars
    /\ UNCHANGED <<m_isRunning, m_stopping, m_useKLD2Trigger, pc, ballLocked, originalBall,
                   shotNumber, shotLog, sessionBase>>
    /\ UNCHANGED histvars

\* captureLoop lines 115-194: pipe and camera process set up (ok) or not
CL_Setup(ok) ==
    /\ UNCHANGED othervars
    /\ pc = "setup"
    /\ IF ok
       THEN /\ pc' = "top"
            /\ ballLocked' = FALSE
            /\ originalBall' = NoBall
            /\ shotNumber' = 1
            /\ sessionBase' = Len(shotLog)
            /\ UNCHANGED m_isRunning
       ELSE /\ pc' = "done"
            /\ m_isRunning' = FALSE
            /\ UNCHANGED <<ballLocked, originalBall, shotNumber, sessionBase>>
    /\ UNCHANGED kvars
    /\ UNCHANGED flagvars
    /\ UNCHANGED <<m_stopping, m_useKLD2Trigger, mainPc, shotLog>>
    /\ UNCHANGED histvars

\* while (m_isRunning.load()) fails: cleanup and return
CL_Exit ==
    /\ UNCHANGED othervars
    /\ pc = "top"
    /\ ~m_isRunning
    /\ pc' = "done"
    /\ UNCHANGED kvars
    /\ UNCHANGED flagvars
    /\ UNCHANGED <<m_isRunning, m_stopping, m_useKLD2Trigger, mainPc, ballLocked,
                   originalBall, shotNumber, shotLog, sessionBase>>
    /\ UNCHANGED histvars

\* the pipe read fails or reaches end of file (lines 204-216)
CL_ReadFail ==
    /\ UNCHANGED othervars
    /\ pc = "top"
    /\ m_isRunning
    /\ m_isRunning' = FALSE
    /\ UNCHANGED kvars
    /\ UNCHANGED flagvars
    /\ UNCHANGED <<m_stopping, m_useKLD2Trigger, mainPc, pc, ballLocked, originalBall,
                   shotNumber, shotLog, sessionBase>>
    /\ UNCHANGED histvars

\* the ball lock after lines 231-239
LockedAfter(det) == ballLocked \/ det.radius > 0
OriginalAfter(det) == IF ~ballLocked /\ det.radius > 0 THEN det ELSE originalBall

\* where lines 242-318 take the iteration
FrameBranch(det) ==
    IF LockedAfter(det) /\ isSameBall(OriginalAfter(det), det)
    THEN IF m_useKLD2Trigger
         THEN IF m_kld2ImpactDetected
              THEN IF detectImpact(OriginalAfter(det), det,
                                   ImpactThreshold, ImpactAxis, ImpactDirection)
                   THEN "confirmed"
                   ELSE "practice"
              ELSE "top"
         ELSE "top"
    ELSE "top"

\* one full frame read, detected and checked (lines 197-252), including the
\* load of the radar impact flag
CL_Frame(det) ==
    /\ UNCHANGED othervars
    /\ pc = "top"
    /\ m_isRunning
    /\ FrameBranch(det) = "confirmed" => Len(shotLog) < MaxShots
    /\ ballLocked' = LockedAfter(det)
    /\ originalBall' = OriginalAfter(det)
    /\ pc' = FrameBranch(det)
    /\ impactAge' = IF m_kld2ImpactDetected THEN Min(impactAge + 1, MaxAge) ELSE impactAge
    /\ UNCHANGED kvars
    /\ UNCHANGED flagvars
    /\ UNCHANGED <<m_isRunning, m_stopping, m_useKLD2Trigger, mainPc, shotNumber, shotLog,
                   sessionBase, credit>>

CL_ConfirmedNoReset ==
    /\ UNCHANGED othervars
    /\ pc = "confirmed"
    /\ shotLog' = Append(shotLog, shotNumber)
    /\ shotNumber' = shotNumber + 1
    /\ credit' = credit - 1
    /\ pc' = "top"
    /\ UNCHANGED kvars
    /\ UNCHANGED flagvars
    /\ UNCHANGED <<m_isRunning, m_stopping, m_useKLD2Trigger, mainPc, sessionBase, impactAge,
                   ballLocked, originalBall>>

\* confirmed impact, lines 252-294: shotCaptured, the lock reset, first flag store
CL_Confirmed ==
    /\ UNCHANGED othervars
    /\ pc = "confirmed"
    /\ shotLog' = Append(shotLog, shotNumber)
    /\ shotNumber' = shotNumber + 1
    /\ credit' = credit - 1
    /\ ballLocked' = FALSE
    /\ originalBall' = NoBall
    /\ m_kld2Triggered' = FALSE
    /\ pc' = "confirmed_impact"
    /\ UNCHANGED kvars
    /\ UNCHANGED <<m_kld2ImpactDetected, m_waitingForImpact>>
    /\ UNCHANGED <<m_isRunning, m_stopping, m_useKLD2Trigger, mainPc, sessionBase, impactAge>>

\* practice swing, line 306: first flag store
CL_Practice ==
    /\ UNCHANGED othervars
    /\ pc = "practice"
    /\ m_kld2Triggered' = FALSE
    /\ pc' = "practice_impact"
    /\ UNCHANGED kvars
    /\ UNCHANGED <<m_kld2ImpactDetected, m_waitingForImpact>>
    /\ UNCHANGED <<m_isRunning, m_stopping, m_useKLD2Trigger, mainPc, ballLocked,
                   originalBall, shotNumber, shotLog, sessionBase>>
    /\ UNCHANGED histvars

\* m_kld2ImpactDetected.store(false), lines 295 and 307
CL_StoreImpact ==
    /\ UNCHANGED othervars
    /\ pc \in {"confirmed_impact", "practice_impact"}
    /\ m_kld2ImpactDetected' = FALSE
    /\ pc' = IF pc = "confirmed_impact" THEN "confirmed_waiting" ELSE "practice_waiting"
    /\ UNCHANGED kvars
    /\ UNCHANGED <<m_kld2Triggered, m_waitingForImpact>>
    /\ UNCHANGED <<m_isRunning, m_stopping, m_useKLD2Trigger, mainPc, ballLocked,
                   originalBall, shotNumber, shotLog, sessionBase>>
    /\ UNCHANGED histvars

\* m_waitingForImpact.store(false), lines 296 and 308; the iteration ends
CL_StoreWaiting ==
    /\ UNCHANGED othervars
    /\ pc \in {"confirmed_waiting", "practice_waiting"}
    /\ m_waitingForImpact' = FALSE
    /\ pc' = "top"
    /\ UNCHANGED kvars
    /\ UNCHANGED <<m_kld2Triggered, m_kld2ImpactDetected>>
    /\ UNCHANGED <<m_isRunning, m_stopping, m_useKLD2Trigger, mainPc, ballLocked,
                   originalBall, shotNumber, shotLog, sessionBase>>
    /\ UNCHANGED histvars

(***************************************************************************)
(* CameraCalibration: live ball tracking (detectBallLive) and the ball     *)
(* zone state machine (updateBallZoneState).  A frame is abstracted to the *)
(* circles HoughCircles finds in it; a circle carries its centre, radius   *)
(* and the standard deviation sd of its perimeter brightness.  Frames of   *)
(* the model carry at most one circle, so the best-score selection of      *)
(* lines 1068-1168 is the choice of the qualifying circle.  Doubles are    *)
(* fixed-point numbers, Px units to a pixel, products truncated (Scale).    *)
(***************************************************************************)
Px == 10

StabilityHistorySize == 15   \* m_stabilityHistorySize
StabilityThreshold == 2      \* m_stabilityThreshold, pixels
ReadyRequiredMs == 1000      \* m_readyRequiredMs
EmptyMissLimit == 15         \* CameraCalibration.cpp:1050
PredictionWindow == 60       \* CameraCalibration.cpp:1180
KalmanMissLimit == 10        \* CameraCalibration.cpp:1023
KalmanMinConfidence == 3     \* CameraCalibration.cpp:1023
FullConfidence == 10         \* CameraCalibration.cpp:1322
MinRadius == 4               \* detection/minRadius default
MaxRadius == 15              \* detection/maxRadius default
SearchRadiusBase == 30       \* CameraCalibration.cpp:1105
SearchRadiusStep == 7        \* CameraCalibration.cpp:1105
NearCircularity == 50        \* CameraCalibration.cpp:1138
FarCircularity == 30         \* CameraCalibration.cpp:1138

TickMs == 500                \* granularity of the clock
MaxTicks == 2                \* clock ticks explored
MaxMissed == 3               \* consecutive missed frames explored while the zone,
                             \* the clock and the ball vary
MaxOcclusion == 62           \* consecutive missed frames explored over a ball at rest
MaxMoves == 1                \* frames showing the ball displaced
MaxZoneRun == 16             \* positions of a run remembered by zoneRun

\* n / d rounded toward zero, as a stand-in for the rounding of a double
Scale(n, d) == IF n >= 0 THEN n \div d ELSE -((-n) \div d)

ZoneStates == {"NO_BALL", "BALL_OUT_OF_ZONE", "BALL_IN_ZONE_MOVING", "BALL_IN_ZONE_STABLE",
               "READY", "IMPACT_DETECTED", "POST_IMPACT"}

Circle(cx, cy, cr, csd) == [x |-> cx * Px, y |-> cy * Px, r |-> cr, sd |-> csd]
CircleRest == Circle(100, 100, 8, 20)        \* the ball at rest
CircleMoved == Circle(103, 100, 8, 20)       \* the ball 3 px further
CircleOccluded == Circle(100, 100, 8, 40)    \* the ball, perimeter partly covered
CircleBig == Circle(100, 100, 20, 20)        \* a circle too large for a ball
Circles == {CircleRest, CircleMoved, CircleOccluded, CircleBig}

NoFrame == [empty |-> TRUE, circles |-> <<>>]
Frames == {NoFrame, [empty |-> FALSE, circles |-> <<>>]}
              \cup {[empty |-> FALSE, circles |-> <<c>>] : c \in Circles}

Corner(cx, cy) == [x |-> cx * Px, y |-> cy * Px]
ZoneNear == <<Corner(50, 50), Corner(150, 50), Corner(150, 150), Corner(50, 150)>>
ZoneFar == <<Corner(200, 50), Corner(300, 50), Corner(300, 150), Corner(200, 150)>>
BadCorners == <<Corner(50, 50), Corner(150, 50), Corner(150, 150)>>
CornerLists == {ZoneNear, ZoneFar, BadCorners}

DefaultResult == [detected |-> FALSE, x |-> 0, y |-> 0, radius |-> 0, inZone |-> FALSE]

\* cv::pointPolygonTest(...) >= 0 for the axis-aligned rectangles of the model
pointPolygonTest(corners, px, py) ==
    /\ \E i \in 1..Len(corners) : corners[i].x <= px
    /\ \E i \in 1..Len(corners) : corners[i].x >= px
    /\ \E i \in 1..Len(corners) : corners[i].y <= py
    /\ \E i \in 1..Len(corners) : corners[i].y >= py

\* the zone test of lines 1037-1046, 1075-1082, 1196-1205 and 1332-1342
InZoneAt(px, py) ==
    m_isZoneDefined /\ Len(m_zoneCorners) = 4 /\ pointPolygonTest(m_zoneCorners, px, py)

\* nearLastPosition, lines 1100-1109 (distances compared by their squares)
nearLastPosition(c) ==
    /\ m_liveTrackingInitialized
    /\ LET dx == c.x - m_smoothedBallX
           dy == c.y - m_smoothedBallY
           searchRadius == (SearchRadiusBase
                              + (FullConfidence - m_trackingConfidence) * SearchRadiusStep) * Px
       IN dx * dx + dy * dy < searchRadius * searchRadius

\* the filters of the candidate loop, lines 1068-1146
Qualifies(c) ==
    /\ ~(~InZoneAt(c.x, c.y) /\ m_isZoneDefined)
    /\ ~(c.r < MinRadius \/ c.r > MaxRadius)
    /\ ~(c.sd > (IF nearLastPosition(c) THEN NearCircularity ELSE FarCircularity))

BestCircles(circles) == SelectSeq(circles, Qualifies)

isBallStable(history) ==
    IF Len(history) < StabilityHistorySize
    THEN FALSE
    ELSE \A i \in 1..Len(history) :
            LET dx == history[i].x - history[1].x
                dy == history[i].y - history[1].y
            IN dx * dx + dy * dy < (StabilityThreshold * Px) * (StabilityThreshold * Px)

ZoneTransitionReadyDrops(state, ballDetected, inZone, stable, readyElapsed) ==
    CASE state = "NO_BALL" ->
            IF ballDetected /\ inZone THEN "BALL_IN_ZONE_MOVING"
            ELSE IF ballDetected /\ ~inZone THEN "BALL_OUT_OF_ZONE" ELSE state
      [] state = "BALL_OUT_OF_ZONE" ->
            IF ~ballDetected THEN "NO_BALL"
            ELSE IF inZone THEN "BALL_IN_ZONE_MOVING" ELSE state
      [] state = "BALL_IN_ZONE_MOVING" ->
            IF ~ballDetected \/ ~inZone
            THEN (IF ~ballDetected THEN "NO_BALL" ELSE "BALL_OUT_OF_ZONE")
            ELSE IF stable THEN "BALL_IN_ZONE_STABLE" ELSE state
      [] state = "BALL_IN_ZONE_STABLE" ->
            IF ~ballDetected \/ ~inZone
            THEN (IF ~ballDetected THEN "NO_BALL" ELSE "BALL_OUT_OF_ZONE")
            ELSE IF ~stable THEN "BALL_IN_ZONE_MOVING"
            ELSE IF readyElapsed THEN "READY" ELSE state
      [] state = "READY" ->
            IF ~ballDetected \/ ~inZone
            THEN (IF ~ballDetected THEN "NO_BALL" ELSE "BALL_OUT_OF_ZONE")
            ELSE state
      [] state = "IMPACT_DETECTED" -> "POST_IMPACT"
      [] OTHER -> state

\* the switch going from BALL_IN_ZONE_STABLE to READY without the dwell time
ZoneTransitionNoDwell(state, ballDetected, inZone, stable, readyElapsed) ==
    CASE state = "NO_BALL" ->
            IF ballDetected /\ inZone THEN "BALL_IN_ZONE_MOVING"
            ELSE IF ballDetected /\ ~inZone THEN "BALL_OUT_OF_ZONE" ELSE state
      [] state = "BALL_OUT_OF_ZONE" ->
            IF ~ballDetected THEN "NO_BALL"
            ELSE IF inZone THEN "BALL_IN_ZONE_MOVING" ELSE state
      [] state = "BALL_IN_ZONE_MOVING" ->
            IF ~ballDetected \/ ~inZone
            THEN (IF ~ballDetected THEN "NO_BALL" ELSE "BALL_OUT_OF_ZONE")
            ELSE IF stable THEN "BALL_IN_ZONE_STABLE" ELSE state
      [] state = "BALL_IN_ZONE_STABLE" ->
            IF ~ballDetected \/ ~inZone
            THEN (IF ~ballDetected THEN "NO_BALL" ELSE "BALL_OUT_OF_ZONE")
            ELSE IF ~stable THEN "BALL_IN_ZONE_MOVING" ELSE "READY"
      [] state = "READY" ->
            IF ~ballDetected \/ ~inZone THEN "IMPACT_DETECTED" ELSE state
      [] state = "IMPACT_DETECTED" -> "POST_IMPACT"
      [] OTHER -> state

\* the switch leaving POST_IMPACT by itself once the ball is gone
ZoneTransitionPostImpactEnds(state, ballDetected, inZone, stable, readyElapsed) ==
    CASE state = "NO_BALL" ->
            IF ballDetected /\ inZone THEN "BALL_IN_ZONE_MOVING"
            ELSE IF ballDetected /\ ~inZone THEN "BALL_OUT_OF_ZONE" ELSE state
      [] state = "BALL_OUT_OF_ZONE" ->
            IF ~ballDetected THEN "NO_BALL"
            ELSE IF inZone THEN "BALL_IN_ZONE_MOVING" ELSE state
      [] state = "BALL_IN_ZONE_MOVING" ->
            IF ~ballDetected \/ ~inZone
            THEN (IF ~ballDetected THEN "NO_BALL" ELSE "BALL_OUT_OF_ZONE")
            ELSE IF stable THEN "BALL_IN_ZONE_STABLE" ELSE state
      [] state = "BALL_IN_ZONE_STABLE" ->
            IF ~ballDetected \/ ~inZone
            THEN (IF ~ballDetected THEN "NO_BALL" ELSE "BALL_OUT_OF_ZONE")
            ELSE IF ~stable THEN "BALL_IN_ZONE_MOVING"
            ELSE IF readyElapsed THEN "READY" ELSE state
      [] state = "READY" ->
            IF ~ballDetected \/ ~inZone THEN "IMPACT_DETECTED" ELSE state
      [] state = "IMPACT_DETECTED" -> "POST_IMPACT"
      [] state = "POST_IMPACT" -> IF ~ballDetected THEN "NO_BALL" ELSE state
      [] OTHER -> state

\* the switch of updateBallZoneState, lines 1650-1718
ZoneTransition(state, ballDetected, inZone, stable, readyElapsed) ==
    CASE state = "NO_BALL" ->
            IF ballDetected /\ inZone THEN "BALL_IN_ZONE_MOVING"
            ELSE IF ballDetected /\ ~inZone THEN "BALL_OUT_OF_ZONE" ELSE state
      [] state = "BALL_OUT_OF_ZONE" ->
            IF ~ballDetected THEN "NO_BALL"
            ELSE IF inZone THEN "BALL_IN_ZONE_MOVING" ELSE state
      [] state = "BALL_IN_ZONE_MOVING" ->
            IF ~ballDetected \/ ~inZone
            THEN (IF ~ballDetected THEN "NO_BALL" ELSE "BALL_OUT_OF_ZONE")
            ELSE IF stable THEN "BALL_IN_ZONE_STABLE" ELSE state
      [] state = "BALL_IN_ZONE_STABLE" ->
            IF ~ballDetected \/ ~inZone
            THEN (IF ~ballDetected THEN "NO_BALL" ELSE "BALL_OUT_OF_ZONE")
            ELSE IF ~stable THEN "BALL_IN_ZONE_MOVING"
            ELSE IF readyElapsed THEN "READY" ELSE state
      [] state = "READY" ->
            IF ~ballDetected \/ ~inZone THEN "IMPACT_DETECTED" ELSE state
      [] state = "IMPACT_DETECTED" -> "POST_IMPACT"
      [] OTHER -> state

\* the history update without the clearing branch
HistoryAfterKeepsStale(ballDetected, inZone, ballX, ballY) ==
    IF ballDetected /\ inZone
    THEN LET pushed == Append(m_ballPositionHistory, [x |-> ballX, y |-> ballY])
         IN IF Len(pushed) > StabilityHistorySize THEN Tail(pushed) ELSE pushed
    ELSE m_ballPositionHistory

\* the history update of lines 1640-1648
HistoryAfter(ballDetected, inZone, ballX, ballY) ==
    IF ballDetected /\ inZone
    THEN LET pushed == Append(m_ballPositionHistory, [x |-> ballX, y |-> ballY])
         IN IF Len(pushed) > StabilityHistorySize THEN Tail(pushed) ELSE pushed
    ELSE <<>>

\* the positions of the unbroken run of detected-in-zone updates this call
\* extends or breaks; only the latest MaxZoneRun are kept
RunAfter(ballDetected, inZone, ballX, ballY) ==
    IF ballDetected /\ inZone
    THEN LET pushed == Append(zoneRun, [x |-> ballX, y |-> ballY])
         IN IF Len(pushed) > MaxZoneRun THEN Tail(pushed) ELSE pushed
    ELSE <<>>

updateBallZoneState(ballDetected, inZone, ballX, ballY) ==
    LET history == HistoryAfter(ballDetected, inZone, ballX, ballY)
        next == ZoneTransition(m_ballZoneState, ballDetected, inZone, isBallStable(history),
                               now - m_stableStartTime >= ReadyRequiredMs)
    IN /\ m_ballPositionHistory' = history
       /\ m_ballZoneState' = next
       /\ m_stableStartTime' = IF m_ballZoneState = "BALL_IN_ZONE_MOVING"
                                    /\ next = "BALL_IN_ZONE_STABLE"
                                THEN now ELSE m_stableStartTime
       /\ m_isArmed' = IF m_ballZoneState = "BALL_IN_ZONE_STABLE" /\ next = "READY"
                        THEN TRUE ELSE m_isArmed
       /\ m_impactTime' = IF m_ballZoneState = "READY" /\ next = "IMPACT_DETECTED"
                           THEN now ELSE m_impactTime
       /\ zoneRun' = RunAfter(ballDetected, inZone, ballX, ballY)
       /\ stableEntered' = IF m_ballZoneState # "BALL_IN_ZONE_STABLE"
                                /\ next = "BALL_IN_ZONE_STABLE"
                             THEN now ELSE stableEntered

\* what the live-tracking actions leave alone
notlive == <<kvars, cvars, bvars, evars, fvars, xvars>>

\* circles.empty(), lines 1017-1058.  m_kalmanInitialized is only ever
\* cleared, so the predicting branch of line 1023 is modelled for completeness.
EmptyMiss ==
    LET missed == m_missedFrames + 1
    IN /\ m_missedFrames' = missed
       /\ IF m_kalmanInitialized /\ missed < KalmanMissLimit
                /\ m_trackingConfidence > KalmanMinConfidence
          THEN /\ result' = [detected |-> TRUE, x |-> m_smoothedBallX, y |-> m_smoothedBallY,
                             radius |-> m_lastBallRadius,
                             inZone |-> InZoneAt(m_smoothedBallX, m_smoothedBallY)]
               /\ UNCHANGED <<m_liveTrackingInitialized, m_kalmanInitialized,
                              m_trackingConfidence>>
          ELSE /\ result' = DefaultResult
               /\ IF missed > EmptyMissLimit
                  THEN /\ m_liveTrackingInitialized' = FALSE
                       /\ m_kalmanInitialized' = FALSE
                       /\ m_trackingConfidence' = 0
                  ELSE UNCHANGED <<m_liveTrackingInitialized, m_kalmanInitialized,
                                   m_trackingConfidence>>
       /\ UNCHANGED <<m_smoothedBallX, m_smoothedBallY, m_ballVelocityX, m_ballVelocityY,
                      m_lastBallRadius>>
       /\ UNCHANGED statevars

\* bestBrightness < 0, lines 1173-1212
UnqualifiedMiss ==
    LET missed == m_missedFrames + 1
        predictedX == m_smoothedBallX + m_ballVelocityX * missed
        predictedY == m_smoothedBallY + m_ballVelocityY * missed
    IN /\ m_missedFrames' = missed
       /\ result' = IF m_liveTrackingInitialized /\ missed < PredictionWindow
                    THEN [detected |-> TRUE, x |-> predictedX, y |-> predictedY,
                          radius |-> m_lastBallRadius,
                          inZone |-> InZoneAt(predictedX, predictedY)]
                    ELSE DefaultResult
       /\ UNCHANGED <<m_liveTrackingInitialized, m_kalmanInitialized, m_trackingConfidence,
                      m_smoothedBallX, m_smoothedBallY, m_ballVelocityX, m_ballVelocityY,
                      m_lastBallRadius>>
       /\ UNCHANGED statevars

\* a ball was selected, lines 1219-1420
Tracked(best) ==
    LET smoothedX == IF m_liveTrackingInitialized
                     THEN Scale(4 * best.x + 6 * m_smoothedBallX, 10)
                     ELSE best.x
        smoothedY == IF m_liveTrackingInitialized
                     THEN Scale(4 * best.y + 6 * m_smoothedBallY, 10)
                     ELSE best.y
        inZone == m_isZoneDefined /\ Len(m_zoneCorners) = 4
                      /\ pointPolygonTest(m_zoneCorners, smoothedX, smoothedY)
    IN /\ m_ballVelocityX' = IF m_liveTrackingInitialized
                             THEN Scale(3 * (best.x - m_smoothedBallX) + 7 * m_ballVelocityX, 10)
                             ELSE 0
       /\ m_ballVelocityY' = IF m_liveTrackingInitialized
                             THEN Scale(3 * (best.y - m_smoothedBallY) + 7 * m_ballVelocityY, 10)
                             ELSE 0
       /\ m_smoothedBallX' = smoothedX
       /\ m_smoothedBallY' = smoothedY
       /\ m_lastBallRadius' = best.r
       /\ m_liveTrackingInitialized' = TRUE
       /\ m_trackingConfidence' = FullConfidence
       /\ m_missedFrames' = 0
       /\ result' = [detected |-> TRUE, x |-> smoothedX, y |-> smoothedY,
                     radius |-> best.r, inZone |-> inZone]
       /\ updateBallZoneState(TRUE, inZone, best.x, best.y)
       /\ UNCHANGED m_kalmanInitialized

IsMiss(frame) == ~frame.empty /\ BestCircles(frame.circles) = <<>>

ShowsMove(frame) == \E i \in 1..Len(frame.circles) : frame.circles[i].x # CircleRest.x

\* CameraCalibration::detectBallLive on one frame of the frame provider
DetectBallLive(frame) ==
    /\ ShowsMove(frame) => moves < MaxMoves
    /\ moves' = IF ShowsMove(frame) THEN moves + 1 ELSE moves
    /\ IF frame.empty
       THEN /\ result' = DefaultResult
            /\ UNCHANGED trackvars
            /\ UNCHANGED statevars
       ELSE IF frame.circles = <<>>
            THEN EmptyMiss
            ELSE IF BestCircles(frame.circles) = <<>>
                 THEN UnqualifiedMiss
                 ELSE Tracked(Head(BestCircles(frame.circles)))
    /\ UNCHANGED <<zonevars, now>>
    /\ UNCHANGED notlive

\* one call of updateBallZoneState with the given arguments
UpdateBallZoneStateCall(ballDetected, inZone, pos) ==
    /\ pos.x # CircleRest.x => moves < MaxMoves
    /\ moves' = IF pos.x # CircleRest.x THEN moves + 1 ELSE moves
    /\ updateBallZoneState(ballDetected, inZone, pos.x, pos.y)
    /\ UNCHANGED <<trackvars, zonevars, now, result>>
    /\ UNCHANGED notlive

\* resetTracking leaving the stability history in place
ResetTrackingKeepsHistory ==
    /\ m_liveTrackingInitialized' = FALSE
    /\ m_kalmanInitialized' = FALSE
    /\ m_trackingConfidence' = 0
    /\ m_missedFrames' = 0
    /\ m_ballZoneState' = "NO_BALL"
    /\ m_isArmed' = FALSE
    /\ UNCHANGED <<m_smoothedBallX, m_smoothedBallY, m_ballVelocityX, m_ballVelocityY,
                   m_lastBallRadius, m_stableStartTime, m_impactTime, m_ballPositionHistory,
                   stableEntered>>
    /\ zoneRun' = <<>>
    /\ UNCHANGED <<zonevars, now, result, moves>>
    /\ UNCHANGED notlive

\* CameraCalibration::resetTracking
ResetTracking ==
    /\ m_liveTrackingInitialized' = FALSE
    /\ m_kalmanInitialized' = FALSE
    /\ m_trackingConfidence' = 0
    /\ m_missedFrames' = 0
    /\ m_ballZoneState' = "NO_BALL"
    /\ m_isArmed' = FALSE
    /\ m_ballPositionHistory' = <<>>
    /\ UNCHANGED <<m_smoothedBallX, m_smoothedBallY, m_ballVelocityX, m_ballVelocityY,
                   m_lastBallRadius, m_stableStartTime, m_impactTime, stableEntered>>
    /\ zoneRun' = <<>>
    /\ UNCHANGED <<zonevars, now, result, moves>>
    /\ UNCHANGED notlive

\* CameraCalibration::setZoneCorners
SetZoneCorners(corners) ==
    /\ IF Len(corners) # 4
       THEN UNCHANGED zonevars
       ELSE /\ m_zoneCorners' = corners
            /\ m_isZoneDefined' = TRUE
    /\ UNCHANGED <<trackvars, statevars, now, result, moves>>
    /\ UNCHANGED notlive

\* CameraCalibration::resetCalibration
ResetCalibration ==
    /\ m_isZoneDefined' = FALSE
    /\ m_zoneCorners' = <<>>
    /\ UNCHANGED <<trackvars, statevars, now, result, moves>>
    /\ UNCHANGED notlive

\* the wall clock advances between two calls
Tick ==
    /\ now < MaxTicks * TickMs
    /\ now' = now + TickMs
    /\ UNCHANGED <<trackvars, zonevars, statevars, result, moves>>
    /\ UNCHANGED notlive

\* the member initialisers of include/CameraCalibration.h
LInit ==
    /\ m_liveTrackingInitialized = FALSE
    /\ m_kalmanInitialized = FALSE
    /\ m_trackingConfidence = 0
    /\ m_missedFrames = 0
    /\ m_smoothedBallX = 0
    /\ m_smoothedBallY = 0
    /\ m_ballVelocityX = 0
    /\ m_ballVelocityY = 0
    /\ m_lastBallRadius = 0
    /\ m_isZoneDefined = FALSE
    /\ m_zoneCorners = <<>>
    /\ m_ballZoneState = "NO_BALL"
    /\ m_isArmed = FALSE
    /\ m_ballPositionHistory = <<>>
    /\ m_stableStartTime = 0
    /\ m_impactTime = 0
    /\ zoneRun = <<>>
    /\ stableEntered = 0
    /\ now = 0
    /\ result = DefaultResult
    /\ moves = 0


(***************************************************************************)
(* AutoExposureController.  Brightness means are whole grey levels; a      *)
(* smoothed brightness is the pair of the sum and the count of the ring    *)
(* entries it averages, so that comparisons with the target band are exact.*)
(* Gains and the adjustment speed are C++ floats, held in 1/GainUnit and   *)
(* 1/SpeedUnit; a product that changes a float gain changes the modelled   *)
(* gain by at least one unit.  Time is the steady clock's distance from    *)
(* m_last_adjustment_time, which matters only below the minimum interval.  *)
(***************************************************************************)
GainUnit == 1000
SpeedUnit == 10
BrightnessUnit == 60             \* common denominator of the means of 1..5 entries

HISTORY_SIZE == 5                \* include/AutoExposureController.h:134
MinAdjustmentIntervalMs == 100   \* AutoExposureController.cpp:31
DefaultTargetMin == 160          \* AutoExposureController.cpp:19
DefaultTargetMax == 200          \* AutoExposureController.cpp:20
DefaultTargetIdeal == 180        \* AutoExposureController.cpp:21
DefaultMinShutter == 500         \* AutoExposureController.cpp:22
DefaultMaxShutter == 1500        \* AutoExposureController.cpp:23
DefaultMinGain == 1 * GainUnit   \* AutoExposureController.cpp:24
DefaultMaxGain == 16 * GainUnit  \* AutoExposureController.cpp:25
DefaultShutter == 800            \* AutoExposureController.cpp:26 and 345
DefaultGain == 10 * GainUnit     \* AutoExposureController.cpp:27 and 346
DefaultSpeed == 3                \* 0.3f, AutoExposureController.cpp:30
GainUpFactor == 4                \* AutoExposureController.cpp:249
ShutterUpFactor == 200           \* AutoExposureController.cpp:254
GainDownDivisor == 2             \* 0.5f, AutoExposureController.cpp:264
ShutterDownFactor == 100         \* AutoExposureController.cpp:269

ExposureTickMs == 50             \* the clock step between two calls
MaxConfigCalls == 1              \* configuration calls explored
MaxAEUpdates == 2                \* updates explored under arbitrary configuration

PresetModes == {"AUTO", "OUTDOOR_BRIGHT", "OUTDOOR_NORMAL", "INDOOR", "INDOOR_DIM"}

\* AutoExposureController::PRESETS
PRESETS ==
    [AUTO           |-> [shutter_us |-> 800, gain |-> 10 * GainUnit, target_brightness |-> 180],
     OUTDOOR_BRIGHT |-> [shutter_us |-> 500, gain |-> 2 * GainUnit, target_brightness |-> 170],
     OUTDOOR_NORMAL |-> [shutter_us |-> 700, gain |-> 4 * GainUnit, target_brightness |-> 180],
     INDOOR         |-> [shutter_us |-> 1200, gain |-> 12 * GainUnit, target_brightness |-> 190],
     INDOOR_DIM     |-> [shutter_us |-> 1500, gain |-> 16 * GainUnit, target_brightness |-> 200]]

Reasons == {"no_update", "manual_mode", "rate_limited", "invalid_measurement",
            "within_target", "increased_gain", "increased_shutter", "at_max_exposure",
            "decreased_gain", "decreased_shutter", "at_min_exposure"}

\* frames offered to update: a null pointer, an image without pixels, and
\* 8 x 8 images of one grey level (dark, inside the default band, bright)
Brightnesses == {100, 180, 230}
NullFrame == [null |-> TRUE, width |-> 0, height |-> 0, mean |-> 0]
EmptyImage == [null |-> FALSE, width |-> 0, height |-> 0, mean |-> 0]
Image(b) == [null |-> FALSE, width |-> 8, height |-> 8, mean |-> b]
AEFrames == {NullFrame, EmptyImage} \cup {Image(b) : b \in Brightnesses}

\* the zone members after measureBrightness, lines 186-190
ZoneFor(frame) ==
    IF frame.null \/ m_zone_defined
    THEN [x |-> m_zone_center_x, y |-> m_zone_center_y, r |-> m_zone_radius]
    ELSE [x |-> frame.width \div 2, y |-> frame.height \div 2,
          r |-> Min(frame.width, frame.height) \div 4]

\* AutoExposureController::measureBrightnessRect: stats.valid
measureBrightnessRect(frame, zone) ==
    LET box_size == Scale(zone.r * 3, 2)
        x1 == Max(0, zone.x - box_size)
        x2 == Min(frame.width, zone.x + box_size)
        y1 == Max(0, zone.y - box_size)
        y2 == Min(frame.height, zone.y + box_size)
    IN ~(x2 <= x1 \/ y2 <= y1) /\ (x2 - x1) * (y2 - y1) > 0

\* AutoExposureController::measureBrightness: stats.valid
measureBrightness(frame) ==
    IF frame.null THEN FALSE ELSE measureBrightnessRect(frame, ZoneFor(frame))

\* AutoExposureController::addToHistory
HistoryWith(brightness) ==
    [history |-> [m_brightness_history EXCEPT ![m_history_index + 1] = brightness],
     index |-> (m_history_index + 1) % HISTORY_SIZE,
     count |-> IF m_history_count < HISTORY_SIZE THEN m_history_count + 1
               ELSE m_history_count]

RECURSIVE SumFirst(_, _)
SumFirst(history, n) == IF n = 0 THEN 0 ELSE history[n] + SumFirst(history, n - 1)

\* the amount by which gain * (1 +- num/den) differs from gain
GainChange(gain, num, den) ==
    IF num = 0 \/ gain = 0 THEN 0 ELSE Max(1, (gain * num) \div den)

\* calculateAdjustment answering a dark scene at full gain with a shorter
\* shutter
calculateAdjustmentShortens(sum, count) ==
    LET scaled == m_target_ideal * count
        absError == Abs(scaled - sum)
        speed == m_adjustment_speed
    IN IF sum >= m_target_min * count /\ sum <= m_target_max * count
       THEN [shutter |-> m_current_shutter, gain |-> m_current_gain,
             reason |-> "within_target"]
       ELSE IF sum < m_target_min * count
       THEN IF m_current_gain < m_max_gain
            THEN [shutter |-> m_current_shutter,
                  gain |-> Min(m_max_gain,
                               m_current_gain
                                 + GainChange(m_current_gain, absError * speed * GainUpFactor,
                                              scaled * SpeedUnit)),
                  reason |-> "increased_gain"]
            ELSE IF m_current_shutter > m_min_shutter
            THEN [shutter |-> Max(m_min_shutter,
                                  m_current_shutter
                                    - (absError * speed * ShutterUpFactor)
                                         \div (scaled * SpeedUnit)),
                  gain |-> m_current_gain,
                  reason |-> "increased_shutter"]
            ELSE [shutter |-> m_current_shutter, gain |-> m_current_gain,
                  reason |-> "at_max_exposure"]
       ELSE IF m_current_gain > m_min_gain
            THEN [shutter |-> m_current_shutter,
                  gain |-> Max(m_min_gain,
                               m_current_gain
                                 - GainChange(m_current_gain, absError * speed,
                                              scaled * SpeedUnit * GainDownDivisor)),
                  reason |-> "decreased_gain"]
            ELSE IF m_current_shutter > m_min_shutter
            THEN [shutter |-> Max(m_min_shutter,
                                  m_current_shutter
                                    - (absError * speed * ShutterDownFactor)
                                         \div (scaled * SpeedUnit)),
                  gain |-> m_current_gain,
                  reason |-> "decreased_shutter"]
            ELSE [shutter |-> m_current_shutter, gain |-> m_current_gain,
                  reason |-> "at_min_exposure"]

\* AutoExposureController::calculateAdjustment on the smoothed brightness
\* sum / count: new_shutter, new_gain and reason
calculateAdjustment(sum, count) ==
    LET scaled == m_target_ideal * count
        absError == Abs(scaled - sum)
        speed == m_adjustment_speed
    IN IF sum >= m_target_min * count /\ sum <= m_target_max * count
       THEN [shutter |-> m_current_shutter, gain |-> m_current_gain,
             reason |-> "within_target"]
       ELSE IF sum < m_target_min * count
       THEN IF m_current_gain < m_max_gain
            THEN [shutter |-> m_current_shutter,
                  gain |-> Min(m_max_gain,
                               m_current_gain
                                 + GainChange(m_current_gain, absError * speed * GainUpFactor,
                                              scaled * SpeedUnit)),
                  reason |-> "increased_gain"]
            ELSE IF m_current_shutter < m_max_shutter
            THEN [shutter |-> Min(m_max_shutter,
                                  m_current_shutter
                                    + (absError * speed * ShutterUpFactor)
                                         \div (scaled * SpeedUnit)),
                  gain |-> m_current_gain,
                  reason |-> "increased_shutter"]
            ELSE [shutter |-> m_current_shutter, gain |-> m_current_gain,
                  reason |-> "at_max_exposure"]
       ELSE IF m_current_gain > m_min_gain
            THEN [shutter |-> m_current_shutter,
                  gain |-> Max(m_min_gain,
                               m_current_gain
                                 - GainChange(m_current_gain, absError * speed,
                                              scaled * SpeedUnit * GainDownDivisor)),
                  reason |-> "decreased_gain"]
            ELSE IF m_current_shutter > m_min_shutter
            THEN [shutter |-> Max(m_min_shutter,
                                  m_current_shutter
                                    - (absError * speed * ShutterDownFactor)
                                         \div (scaled * SpeedUnit)),
                  gain |-> m_current_gain,
                  reason |-> "decreased_shutter"]
            ELSE [shutter |-> m_current_shutter, gain |-> m_current_gain,
                  reason |-> "at_min_exposure"]

\* what the exposure actions leave alone
notexposure == <<kvars, cvars, lvars, bvars, fvars, xvars>>

\* the result update starts from, lines 284-290
EarlyResult(why) ==
    [adjusted |-> FALSE, shutter_us |-> m_current_shutter, gain |-> m_current_gain,
     brightness |-> 0, reason |-> why]

\* an early return that stamps the adjustment time
UpdateReturnsStampsTime(why) ==
    /\ adjustment' = EarlyResult(why)
    /\ sinceAdjustment' = 0
    /\ UNCHANGED <<exposure, ringvars, sinceMutation, aeUpdates>>

\* update returning before anything is written
UpdateReturns(why) ==
    /\ adjustment' = EarlyResult(why)
    /\ UNCHANGED <<exposure, ringvars, sinceAdjustment, sinceMutation, aeUpdates>>

\* update stamping the adjustment time whether or not anything changed
UpdateMeasuredStampsAlways(frame, force) ==
    LET ring == HistoryWith(frame.mean)
        sum == SumFirst(ring.history, ring.count)
        new == calculateAdjustment(sum, ring.count)
        changed == new.shutter # m_current_shutter \/ new.gain # m_current_gain
    IN /\ m_brightness_history' = ring.history
       /\ m_history_index' = ring.index
       /\ m_history_count' = ring.count
       /\ m_current_shutter' = new.shutter
       /\ m_current_gain' = new.gain
       /\ sinceAdjustment' = 0
       /\ adjustment' = [adjusted |-> changed, shutter_us |-> new.shutter, gain |-> new.gain,
                         brightness |-> (sum * BrightnessUnit) \div ring.count,
                         reason |-> new.reason]
       /\ sinceMutation' = IF force THEN sinceMutation ELSE 0
       /\ aeUpdates' = Min(aeUpdates + 1, MaxAEUpdates)

\* update nudging the shutter along with every gain change
UpdateMeasuredMovesBoth(frame, force) ==
    LET ring == HistoryWith(frame.mean)
        sum == SumFirst(ring.history, ring.count)
        new == calculateAdjustment(sum, ring.count)
        shutter == IF new.gain # m_current_gain THEN new.shutter + 1 ELSE new.shutter
        changed == shutter # m_current_shutter \/ new.gain # m_current_gain
    IN /\ m_brightness_history' = ring.history
       /\ m_history_index' = ring.index
       /\ m_history_count' = ring.count
       /\ m_current_shutter' = shutter
       /\ m_current_gain' = new.gain
       /\ sinceAdjustment' = IF changed THEN 0 ELSE sinceAdjustment
       /\ adjustment' = [adjusted |-> changed, shutter_us |-> shutter, gain |-> new.gain,
                         brightness |-> (sum * BrightnessUnit) \div ring.count,
                         reason |-> new.reason]
       /\ sinceMutation' = IF force THEN sinceMutation ELSE 0
       /\ aeUpdates' = Min(aeUpdates + 1, MaxAEUpdates)

\* update from the measurement on, lines 315-337
UpdateMeasured(frame, force) ==
    LET ring == HistoryWith(frame.mean)
        sum == SumFirst(ring.history, ring.count)
        new == calculateAdjustment(sum, ring.count)
        changed == new.shutter # m_current_shutter \/ new.gain # m_current_gain
    IN /\ m_brightness_history' = ring.history
       /\ m_history_index' = ring.index
       /\ m_history_count' = ring.count
       /\ m_current_shutter' = new.shutter
       /\ m_current_gain' = new.gain
       /\ sinceAdjustment' = IF changed THEN 0 ELSE sinceAdjustment
       /\ adjustment' = [adjusted |-> changed, shutter_us |-> new.shutter, gain |-> new.gain,
                         brightness |-> (sum * BrightnessUnit) \div ring.count,
                         reason |-> new.reason]
       /\ sinceMutation' = IF force THEN sinceMutation ELSE 0
       /\ aeUpdates' = Min(aeUpdates + 1, MaxAEUpdates)

\* AutoExposureController::update
Update(frame, force) ==
    /\ IF ~m_auto_enabled /\ ~force
       THEN UpdateReturns("manual_mode") /\ UNCHANGED zonecfg
       ELSE IF ~force /\ sinceAdjustment < MinAdjustmentIntervalMs
       THEN UpdateReturns("rate_limited") /\ UNCHANGED zonecfg
       ELSE /\ m_zone_center_x' = ZoneFor(frame).x
            /\ m_zone_center_y' = ZoneFor(frame).y
            /\ m_zone_radius' = ZoneFor(frame).r
            /\ UNCHANGED m_zone_defined
            /\ IF ~measureBrightness(frame)
               THEN UpdateReturns("invalid_measurement")
               ELSE UpdateMeasured(frame, force)
    /\ UNCHANGED <<targetcfg, limitcfg, m_current_mode, m_auto_enabled, m_adjustment_speed>>
    /\ UNCHANGED configCalls
    /\ UNCHANGED notexposure

\* AutoExposureController::setBallZone
SetBallZone(center_x, center_y, radius) ==
    /\ m_zone_center_x' = center_x
    /\ m_zone_center_y' = center_y
    /\ m_zone_radius' = radius
    /\ m_zone_defined' = TRUE
    /\ UNCHANGED <<targetcfg, limitcfg, exposure, m_current_mode, m_auto_enabled,
                   m_adjustment_speed, sinceAdjustment, ringvars, adjustment, sinceMutation,
                   aeUpdates>>
    /\ configCalls' = Min(configCalls + 1, MaxConfigCalls)
    /\ UNCHANGED notexposure

\* setPresetMode applying a preset without leaving automatic adjustment
SetPresetModeKeepsAuto(mode) ==
    /\ IF mode = "AUTO"
       THEN /\ m_auto_enabled' = TRUE
            /\ m_current_mode' = "AUTO"
            /\ UNCHANGED <<exposure, m_target_ideal>>
       ELSE /\ m_current_shutter' = PRESETS[mode].shutter_us
            /\ m_current_gain' = PRESETS[mode].gain
            /\ m_target_ideal' = PRESETS[mode].target_brightness
            /\ m_current_mode' = mode
            /\ UNCHANGED m_auto_enabled
    /\ UNCHANGED <<zonecfg, m_target_min, m_target_max, limitcfg, m_adjustment_speed,
                   sinceAdjustment, ringvars, adjustment, sinceMutation, aeUpdates>>
    /\ configCalls' = Min(configCalls + 1, MaxConfigCalls)
    /\ UNCHANGED notexposure

\* AutoExposureController::setPresetMode
SetPresetMode(mode) ==
    /\ IF mode = "AUTO"
       THEN /\ m_auto_enabled' = TRUE
            /\ m_current_mode' = "AUTO"
            /\ UNCHANGED <<exposure, m_target_ideal>>
       ELSE /\ m_current_shutter' = PRESETS[mode].shutter_us
            /\ m_current_gain' = PRESETS[mode].gain
            /\ m_target_ideal' = PRESETS[mode].target_brightness
            /\ m_current_mode' = mode
            /\ m_auto_enabled' = FALSE
    /\ UNCHANGED <<zonecfg, m_target_min, m_target_max, limitcfg, m_adjustment_speed,
                   sinceAdjustment, ringvars, adjustment, sinceMutation, aeUpdates>>
    /\ configCalls' = Min(configCalls + 1, MaxConfigCalls)
    /\ UNCHANGED notexposure

\* AutoExposureController::setTargetBrightness
SetTargetBrightness(min, max, ideal) ==
    /\ m_target_min' = min
    /\ m_target_max' = max
    /\ m_target_ideal' = ideal
    /\ UNCHANGED <<zonecfg, limitcfg, exposure, m_current_mode, m_auto_enabled,
                   m_adjustment_speed, sinceAdjustment, ringvars, adjustment, sinceMutation,
                   aeUpdates>>
    /\ configCalls' = Min(configCalls + 1, MaxConfigCalls)
    /\ UNCHANGED notexposure

\* AutoExposureController::setShutterLimits
SetShutterLimits(min_us, max_us) ==
    /\ m_min_shutter' = min_us
    /\ m_max_shutter' = max_us
    /\ UNCHANGED <<zonecfg, targetcfg, m_min_gain, m_max_gain, exposure, m_current_mode,
                   m_auto_enabled, m_adjustment_speed, sinceAdjustment, ringvars, adjustment,
                   sinceMutation, aeUpdates>>
    /\ configCalls' = Min(configCalls + 1, MaxConfigCalls)
    /\ UNCHANGED notexposure

\* AutoExposureController::setGainLimits
SetGainLimits(min, max) ==
    /\ m_min_gain' = min
    /\ m_max_gain' = max
    /\ UNCHANGED <<zonecfg, targetcfg, m_min_shutter, m_max_shutter, exposure, m_current_mode,
                   m_auto_enabled, m_adjustment_speed, sinceAdjustment, ringvars, adjustment,
                   sinceMutation, aeUpdates>>
    /\ configCalls' = Min(configCalls + 1, MaxConfigCalls)
    /\ UNCHANGED notexposure

\* AutoExposureController::setAdjustmentSpeed
SetAdjustmentSpeed(speed) ==
    /\ m_adjustment_speed' = Max(0, Min(SpeedUnit, speed))
    /\ UNCHANGED <<zonecfg, targetcfg, limitcfg, exposure, m_current_mode, m_auto_enabled,
                   sinceAdjustment, ringvars, adjustment, sinceMutation, aeUpdates>>
    /\ configCalls' = Min(configCalls + 1, MaxConfigCalls)
    /\ UNCHANGED notexposure

\* AutoExposureController::reset
ExposureReset ==
    /\ m_current_shutter' = DefaultShutter
    /\ m_current_gain' = DefaultGain
    /\ m_auto_enabled' = TRUE
    /\ m_current_mode' = "AUTO"
    /\ m_history_count' = 0
    /\ m_history_index' = 0
    /\ m_brightness_history' = [i \in 1..HISTORY_SIZE |-> 0]
    /\ UNCHANGED <<zonecfg, targetcfg, limitcfg, m_adjustment_speed, sinceAdjustment,
                   adjustment, sinceMutation, aeUpdates>>
    /\ UNCHANGED configCalls
    /\ UNCHANGED notexposure

\* the steady clock advances between two calls
ExposureTick ==
    /\ sinceAdjustment' = Min(sinceAdjustment + ExposureTickMs, MinAdjustmentIntervalMs)
    /\ sinceMutation' = Min(sinceMutation + ExposureTickMs, MinAdjustmentIntervalMs)
    /\ UNCHANGED <<zonecfg, targetcfg, limitcfg, exposure, m_current_mode, m_auto_enabled,
                   m_adjustment_speed, ringvars, adjustment, aeUpdates>>
    /\ UNCHANGED configCalls
    /\ UNCHANGED notexposure

\* AutoExposureController::AutoExposureController.  m_last_adjustment_time is
\* the epoch of the steady clock, further back than the minimum interval.
EInit ==
    /\ m_zone_center_x = 0
    /\ m_zone_center_y = 0
    /\ m_zone_radius = 0
    /\ m_zone_defined = FALSE
    /\ m_target_min = DefaultTargetMin
    /\ m_target_max = DefaultTargetMax
    /\ m_target_ideal = DefaultTargetIdeal
    /\ m_min_shutter = DefaultMinShutter
    /\ m_max_shutter = DefaultMaxShutter
    /\ m_min_gain = DefaultMinGain
    /\ m_max_gain = DefaultMaxGain
    /\ m_current_shutter = DefaultShutter
    /\ m_current_gain = DefaultGain
    /\ m_current_mode = "AUTO"
    /\ m_auto_enabled = TRUE
    /\ m_adjustment_speed = DefaultSpeed
    /\ sinceAdjustment = MinAdjustmentIntervalMs
    /\ m_brightness_history = [i \in 1..HISTORY_SIZE |-> 0]
    /\ m_history_count = 0
    /\ m_history_index = 0
    /\ adjustment = [adjusted |-> FALSE, shutter_us |-> DefaultShutter, gain |-> DefaultGain,
                     brightness |-> 0, reason |-> "no_update"]
    /\ sinceMutation = MinAdjustmentIntervalMs
    /\ aeUpdates = 0
    /\ configCalls = 0

(***************************************************************************)
(* BallTracker: the armed / triggered / tracking session driven by the     *)
(* process timer.  A frame is abstracted to what the image routines report *)
(* on it: camera motion against the reference frame, the radar's answer,   *)
(* whether detectBall finds a ball in the search region and whether        *)
(* validatePosition accepts it.  A tracked position keeps its frame number *)
(* and whether it was taken from the pre-trigger buffer.                   *)
(***************************************************************************)
DefaultMinTrackingFrames == 10   \* BallTracker.cpp:21
DefaultMaxTrackingFrames == 60   \* BallTracker.cpp:22
BUFFER_SIZE == 30                \* include/BallTracker.h:115
StabilizeFrames == 10            \* BallTracker.cpp:157
PreTriggerFrames == 5            \* BallTracker.cpp:196
MissGrace == 5                   \* BallTracker.cpp:260

MaxArmedFrames == 12             \* frames explored while ARMED
MaxFrameNumber == 70             \* m_frameNumber saturates here
MaxTriggerWait == 14             \* frames without a ball explored after the trigger

TrackingStates == {"IDLE", "ARMED", "TRIGGERED", "TRACKING", "ANALYZING", "COMPLETE"}

MinFrameChoices == {6, 10}
MaxFrameChoices == {8, 60}

TrackerFrames ==
    [empty : BOOLEAN, motion : BOOLEAN, radarConnected : BOOLEAN, radarFast : BOOLEAN,
     detected : BOOLEAN, valid : BOOLEAN]

nottracker == <<kvars, cvars, lvars, evars, fvars, xvars>>

\* BallTracker::armTracking; calibrated: isBallZoneCalibrated() && isZoneDefined()
ArmTracking(calibrated) ==
    /\ IF ~calibrated
       THEN /\ trackerSignals' = {"trackingFailed"}
            /\ UNCHANGED <<m_state, timerActive, m_framesSinceArmed, m_frameNumber,
                           frameBufferSize, m_trackedPositions>>
       ELSE /\ frameBufferSize' = 0
            /\ m_trackedPositions' = <<>>
            /\ m_framesSinceArmed' = 0
            /\ m_frameNumber' = 0
            /\ m_state' = "ARMED"
            /\ timerActive' = TRUE
            /\ trackerSignals' = {}
    /\ UNCHANGED <<m_minTrackingFrames, m_maxTrackingFrames, latestFrame>>
    /\ UNCHANGED nottracker

\* BallTracker::disarmTracking
DisarmTracking ==
    /\ timerActive' = FALSE
    /\ m_state' = "IDLE"
    /\ trackerSignals' = {}
    /\ UNCHANGED <<m_framesSinceArmed, m_frameNumber, frameBufferSize, m_trackedPositions,
                   m_minTrackingFrames, m_maxTrackingFrames, latestFrame>>
    /\ UNCHANGED nottracker

\* BallTracker::resetTracking
ResetTrackerTracking ==
    /\ timerActive' = FALSE
    /\ m_state' = "IDLE"
    /\ m_trackedPositions' = <<>>
    /\ frameBufferSize' = 0
    /\ trackerSignals' = {"capturedFramesChanged"}
    /\ UNCHANGED <<m_framesSinceArmed, m_frameNumber, m_minTrackingFrames,
                   m_maxTrackingFrames, latestFrame>>
    /\ UNCHANGED nottracker

SetMinTrackingFrames(frames) ==
    /\ m_minTrackingFrames' = frames
    /\ UNCHANGED <<m_state, timerActive, m_framesSinceArmed, m_frameNumber, frameBufferSize,
                   m_trackedPositions, m_maxTrackingFrames, trackerSignals, latestFrame>>
    /\ UNCHANGED nottracker

SetMaxTrackingFrames(frames) ==
    /\ m_maxTrackingFrames' = frames
    /\ UNCHANGED <<m_state, timerActive, m_framesSinceArmed, m_frameNumber, frameBufferSize,
                   m_trackedPositions, m_minTrackingFrames, trackerSignals, latestFrame>>
    /\ UNCHANGED nottracker

\* BallTracker::analyzeTrajectory on the positions tracked so far
AnalyzeTrajectory(positions) ==
    IF Len(positions) < m_minTrackingFrames
    THEN /\ m_state' = "ANALYZING"
         /\ trackerSignals' = {"trackingFailed"}
    ELSE /\ m_state' = "COMPLETE"
         /\ trackerSignals' = {"trackingComplete", "trajectoryReady"}

\* FinishOrFail reporting the failure without disarming
FinishOrFailStaysArmed ==
    /\ IF Len(m_trackedPositions) >= m_minTrackingFrames
       THEN /\ timerActive' = FALSE
            /\ AnalyzeTrajectory(m_trackedPositions)
       ELSE /\ trackerSignals' = {"trackingFailed"}
            /\ UNCHANGED <<m_state, timerActive>>
    /\ UNCHANGED m_trackedPositions

\* the ball is lost (lines 236-248 and 261-272): analyse what was tracked, or
\* fail and disarm
FinishOrFail ==
    /\ timerActive' = FALSE
    /\ IF Len(m_trackedPositions) >= m_minTrackingFrames
       THEN AnalyzeTrajectory(m_trackedPositions)
       ELSE /\ m_state' = "IDLE"
            /\ trackerSignals' = {"trackingFailed"}
    /\ UNCHANGED m_trackedPositions

\* the pre-trigger positions of lines 196-204, numbered back from frame number fn
PreTriggerPositions(fn, size) ==
    LET pre == Min(PreTriggerFrames, size)
    IN [k \in 1..pre |-> [frameNumber |-> fn - (pre - k + 1), fromBuffer |-> TRUE]]

\* case ARMED letting a fast radar reading trigger without camera motion
ProcessArmedRadarAlone(f, fn) ==
    LET size == Min(frameBufferSize + 1, BUFFER_SIZE)
        armed == m_framesSinceArmed + 1
        radarConfirmed == f.radarConnected /\ f.radarFast
        shouldTrigger == radarConfirmed \/ (f.motion /\ ~f.radarConnected)
    IN /\ frameBufferSize' = size
       /\ m_framesSinceArmed' = armed
       /\ IF armed > StabilizeFrames /\ shouldTrigger
          THEN /\ m_state' = "TRIGGERED"
               /\ trackerSignals' = {"hitDetected"}
               /\ m_trackedPositions' = m_trackedPositions \o PreTriggerPositions(fn, size)
          ELSE /\ trackerSignals' = {}
               /\ UNCHANGED <<m_state, m_trackedPositions>>
       /\ UNCHANGED timerActive

\* case ARMED entering TRACKING at the trigger, without TRIGGERED
ProcessArmedStraightToTracking(f, fn) ==
    LET size == Min(frameBufferSize + 1, BUFFER_SIZE)
        armed == m_framesSinceArmed + 1
        radarConfirmed == f.radarConnected /\ f.radarFast
        shouldTrigger == f.motion /\ (radarConfirmed \/ ~f.radarConnected)
    IN /\ frameBufferSize' = size
       /\ m_framesSinceArmed' = armed
       /\ IF armed > StabilizeFrames /\ shouldTrigger
          THEN /\ m_state' = "TRACKING"
               /\ trackerSignals' = {"hitDetected"}
               /\ m_trackedPositions' = m_trackedPositions \o PreTriggerPositions(fn, size)
          ELSE /\ trackerSignals' = {}
               /\ UNCHANGED <<m_state, m_trackedPositions>>
       /\ UNCHANGED timerActive

\* case ARMED, lines 145-208
ProcessArmed(f, fn) ==
    LET size == Min(frameBufferSize + 1, BUFFER_SIZE)
        armed == m_framesSinceArmed + 1
        radarConfirmed == f.radarConnected /\ f.radarFast
        shouldTrigger == f.motion /\ (radarConfirmed \/ ~f.radarConnected)
    IN /\ frameBufferSize' = size
       /\ m_framesSinceArmed' = armed
       /\ IF armed > StabilizeFrames /\ shouldTrigger
          THEN /\ m_state' = "TRIGGERED"
               /\ trackerSignals' = {"hitDetected"}
               /\ m_trackedPositions' = m_trackedPositions \o PreTriggerPositions(fn, size)
          ELSE /\ trackerSignals' = {}
               /\ UNCHANGED <<m_state, m_trackedPositions>>
       /\ UNCHANGED timerActive

\* cases TRIGGERED and TRACKING, lines 210-274
ProcessTracking(f, fn) ==
    LET framesSinceHit == Len(m_trackedPositions)
        pushed == Append(m_trackedPositions, [frameNumber |-> fn, fromBuffer |-> FALSE])
    IN /\ IF f.detected
          THEN IF f.valid
               THEN /\ m_trackedPositions' = pushed
                    /\ IF Len(pushed) >= m_maxTrackingFrames
                       THEN /\ timerActive' = FALSE
                            /\ AnalyzeTrajectory(pushed)
                       ELSE /\ m_state' = "TRACKING"
                            /\ trackerSignals' = {"capturedFramesChanged"}
                            /\ UNCHANGED timerActive
               ELSE FinishOrFail
          ELSE IF framesSinceHit > MissGrace
               THEN FinishOrFail
               ELSE /\ trackerSignals' = {}
                    /\ UNCHANGED <<m_state, timerActive, m_trackedPositions>>
       /\ UNCHANGED <<frameBufferSize, m_framesSinceArmed>>

\* BallTracker::processFrame, the slot of the process timer
ProcessFrame(f) ==
    /\ timerActive
    /\ m_state = "ARMED" => m_framesSinceArmed < MaxArmedFrames
    /\ m_frameNumber = MaxFrameNumber => ~(f.detected /\ f.valid)
    /\ IF f.empty
       THEN UNCHANGED bvars
       ELSE /\ latestFrame' = 1 - latestFrame
            /\ m_frameNumber' = Min(m_frameNumber + 1, MaxFrameNumber)
            /\ IF m_state = "ARMED"
               THEN ProcessArmed(f, Min(m_frameNumber + 1, MaxFrameNumber))
               ELSE IF m_state \in {"TRIGGERED", "TRACKING"}
                    THEN ProcessTracking(f, Min(m_frameNumber + 1, MaxFrameNumber))
                    ELSE /\ trackerSignals' = {}
                         /\ UNCHANGED <<m_state, timerActive, m_framesSinceArmed,
                                        frameBufferSize, m_trackedPositions>>
            /\ UNCHANGED <<m_minTrackingFrames, m_maxTrackingFrames>>
    /\ UNCHANGED nottracker

\* BallTracker::BallTracker
BInit ==
    /\ m_state = "IDLE"
    /\ timerActive = FALSE
    /\ m_framesSinceArmed = 0
    /\ m_frameNumber = 0
    /\ frameBufferSize = 0
    /\ m_trackedPositions = <<>>
    /\ m_minTrackingFrames = DefaultMinTrackingFrames
    /\ m_maxTrackingFrames = DefaultMaxTrackingFrames
    /\ trackerSignals = {}
    /\ latestFrame = 0

(***************************************************************************)
(* Stateless helpers.  Each call is one step that records the function,    *)
(* its arguments and its return value; nothing else changes.               *)
(***************************************************************************)
FInit ==
    /\ called = "none"
    /\ input = <<>>
    /\ output = <<>>

\* the helpers keep no state, so one call per behaviour covers them
Returns(function, arguments, value) ==
    /\ called = "none"
    /\ called' = function
    /\ input' = arguments
    /\ output' = value
    /\ UNCHANGED notcalls

\* detect_impact counting movement in either direction
detect_impactEitherWay(prev_x, prev_y, curr_x, curr_y, threshold, axis, direction) ==
    Abs(IF axis = 0 THEN (curr_x - prev_x) * direction
                    ELSE (curr_y - prev_y) * direction) > threshold

\* detect_impact of fast_detection.cpp
detect_impact(prev_x, prev_y, curr_x, curr_y, threshold, axis, direction) ==
    (IF axis = 0 THEN (curr_x - prev_x) * direction
                 ELSE (curr_y - prev_y) * direction) > threshold

\* ball positions in pixels: the address position, just under, at and just
\* over the thresholds either way, and far away
AddressPosition == 100
ImpactCoordinates == {0, 89, 90, 100, 110, 111, 400}
ImpactThresholds == {0, 10, 30}      \* distance thresholds in pixels
ImpactAxes == {-1, 0, 1, 2}
ImpactDirections == {1, -1}
ImpactRadii == {-1, 8}               \* -1: no detection

DetectImpactCall ==
    \E curr_x \in ImpactCoordinates, curr_y \in ImpactCoordinates,
       threshold \in ImpactThresholds, axis \in ImpactAxes, direction \in ImpactDirections :
        Returns("detect_impact",
                [prev_x |-> AddressPosition, prev_y |-> AddressPosition,
                 curr_x |-> curr_x, curr_y |-> curr_y, prev_r |-> 0, curr_r |-> 0,
                 threshold |-> threshold, axis |-> axis, direction |-> direction],
                detect_impact(AddressPosition, AddressPosition, curr_x, curr_y,
                              threshold, axis, direction))

\* CaptureManager::detectImpact
DetectImpactMember ==
    \E curr_x \in ImpactCoordinates, curr_y \in ImpactCoordinates,
       prev_r \in ImpactRadii, curr_r \in ImpactRadii,
       threshold \in ImpactThresholds, axis \in ImpactAxes, direction \in ImpactDirections :
        Returns("detectImpact",
                [prev_x |-> AddressPosition, prev_y |-> AddressPosition,
                 curr_x |-> curr_x, curr_y |-> curr_y, prev_r |-> prev_r, curr_r |-> curr_r,
                 threshold |-> threshold, axis |-> axis, direction |-> direction],
                detectImpact([x |-> AddressPosition, y |-> AddressPosition, radius |-> prev_r],
                             [x |-> curr_x, y |-> curr_y, radius |-> curr_r],
                             threshold, axis, direction))

ImpactNext == DetectImpactCall \/ DetectImpactMember

(***************************************************************************)
(* detect_ball of fast_detection.cpp, from the circle transform on.  The   *)
(* preprocessing (CLAHE, threshold, Canny, blur) and cv::HoughCircles are  *)
(* not modelled: a call is given, for each entry of the sensitivity        *)
(* schedule, the circles HoughCircles returns for it.  A circle is a       *)
(* cv::Vec3f; its centre and radius are held in half pixels so that        *)
(* cvRound has something to round, and it carries the mean and the peak    *)
(* of the grey image over its bounding square (cv::mean, cv::minMaxLoc).   *)
(***************************************************************************)
HalfPixel == 2
FrameRows == 480                 \* gray.rows
FrameCols == 640                 \* gray.cols
param2_values == <<10, 8, 12, 15, 7, 6, 5>>
MergeTolerance == 10             \* fast_detection.cpp:107
MinBallRadius == 20              \* fast_detection.cpp:136
MaxBallRadius == 100             \* fast_detection.cpp:136
MinRegionBrightness == 40        \* fast_detection.cpp:157
MinBrightnessContrast == 30      \* fast_detection.cpp:171
IdealRadiusMin == 30             \* fast_detection.cpp:193
IdealRadiusMax == 60             \* fast_detection.cpp:193
PositionWeight == 30             \* fast_detection.cpp:189
SizeBonus == 30                  \* fast_detection.cpp:194

\* cvRound: the nearest integer, halves to the even neighbour
cvRound(h) ==
    IF h % HalfPixel = 0 THEN h \div HalfPixel
    ELSE LET below == (h - 1) \div HalfPixel
         IN IF below % 2 = 0 THEN below ELSE below + 1

Vec3f(cx, cy, cr, mean, peak) == [x |-> cx, y |-> cy, r |-> cr, mean |-> mean, max |-> peak]

\* lines 76-94: the result of the first schedule entry that finds a circle
RECURSIVE HoughSchedule(_, _)
HoughSchedule(attempts, i) ==
    IF i > Len(param2_values) THEN [circles |-> <<>>, tried |-> Len(param2_values)]
    ELSE IF attempts[i] # <<>> THEN [circles |-> attempts[i], tried |-> i]
    ELSE HoughSchedule(attempts, i + 1)

\* line 107 comparing the centres along x only
is_duplicateAlongX(a, b) ==
    Abs(cvRound(a.x) - cvRound(b.x)) < MergeTolerance

\* line 107: the centre of a is within the tolerance of the used centre of b
is_duplicate(a, b) ==
    /\ Abs(cvRound(a.x) - cvRound(b.x)) < MergeTolerance
    /\ Abs(cvRound(a.y) - cvRound(b.y)) < MergeTolerance

\* lines 96-117: filtered_circles, given the circles kept so far
RECURSIVE RemoveConcentric(_, _, _)
RemoveConcentric(circles, i, kept) ==
    IF i > Len(circles) THEN kept
    ELSE RemoveConcentric(circles, i + 1,
                          IF \E k \in 1..Len(kept) : is_duplicate(circles[i], kept[k])
                          THEN kept
                          ELSE Append(kept, circles[i]))

\* the gates without the contrast test
PassesGatesNoContrast(c) ==
    LET x == cvRound(c.x)
        y == cvRound(c.y)
        r == cvRound(c.r)
    IN /\ ~(x - r < 0 \/ x + r >= FrameCols \/ y - r < 0 \/ y + r >= FrameRows)
       /\ ~(r < MinBallRadius \/ r > MaxBallRadius)
       /\ ~(c.mean < MinRegionBrightness)

\* lines 131-173: the tests a circle must pass to be scored
PassesGates(c) ==
    LET x == cvRound(c.x)
        y == cvRound(c.y)
        r == cvRound(c.r)
    IN /\ ~(x - r < 0 \/ x + r >= FrameCols \/ y - r < 0 \/ y + r >= FrameRows)
       /\ ~(r < MinBallRadius \/ r > MaxBallRadius)
       /\ ~(c.mean < MinRegionBrightness)
       /\ ~(c.max - c.mean < MinBrightnessContrast)

\* lines 177-195: the score, in units of 1 / (2 * gray.rows)
Score(c) ==
    LET y == cvRound(c.y)
        r == cvRound(c.r)
    IN 3 * FrameRows * c.max
       + 4 * FrameRows * (c.max - c.mean)
       + 2 * FrameRows * c.mean
       + 2 * PositionWeight * y
       + (IF r >= IdealRadiusMin /\ r <= IdealRadiusMax THEN 2 * FrameRows * SizeBonus ELSE 0)

NoDetection == [x |-> -1, y |-> -1, r |-> -1]

\* lines 122-211: best_x, best_y, best_r after the scoring loop
RECURSIVE BestCircle(_, _, _, _)
BestCircle(filtered, i, best, best_score) ==
    IF i > Len(filtered) THEN best
    ELSE LET c == filtered[i]
         IN IF PassesGates(c) /\ Score(c) > best_score
            THEN BestCircle(filtered, i + 1,
                            [x |-> cvRound(c.x), y |-> cvRound(c.y), r |-> cvRound(c.r)],
                            Score(c))
            ELSE BestCircle(filtered, i + 1, best, best_score)

\* detect_ball: the locals after the three loops and the return value
\* (NoDetection stands for py::none())
detect_ball(attempts) ==
    LET found == HoughSchedule(attempts, 1)
        filtered_circles == RemoveConcentric(found.circles, 1, <<>>)
    IN [tried |-> found.tried,
        circles |-> found.circles,
        filtered_circles |-> filtered_circles,
        detection |-> BestCircle(filtered_circles, 1, NoDetection, 0)]

DetectBall(attempts) == Returns("detect_ball", attempts, detect_ball(attempts))

MaxCircles == 3                  \* circles in one HoughCircles result explored

SeqsUpTo(S, n) == UNION {[1..k -> S] : k \in 0..n}

\* the schedule finding the circles on its first entry
OnFirstAttempt(circles) ==
    [i \in 1..Len(param2_values) |-> IF i = 1 THEN circles ELSE <<>>]

\* circles for the concentric-circle removal: centres at 100, 108.5, 109.5
\* and 117 along x and at 100 and 120 along y, all of them passing the gates
ConcentricCircles ==
    {Vec3f(cx, cy, 80, 100, 200) : cx \in {200, 217, 219, 234}, cy \in {200, 240}}

ConcentricNext ==
    \E circles \in SeqsUpTo(ConcentricCircles, MaxCircles) : DetectBall(OnFirstAttempt(circles))

\* circles for the gates and the score, their centres 100 pixels or more
\* apart (HoughCircles keeps minDist = 50 between centres, line 83): two
\* good balls of equal score, a lower and better placed one, one of radius
\* 19.5, and four that fail one gate each (radius 18.5, right edge on the
\* frame border, contrast 29, mean brightness 39) while scoring high
ScoredCircles ==
    {Vec3f(200, 200, 80, 100, 200), Vec3f(600, 200, 80, 100, 200),
     Vec3f(600, 600, 80, 100, 200), Vec3f(1000, 600, 39, 100, 200),
     Vec3f(1000, 200, 37, 100, 250), Vec3f(1200, 600, 80, 100, 255),
     Vec3f(200, 600, 80, 100, 129), Vec3f(200, 800, 80, 39, 255)}

DetectNext ==
    \E circles \in SeqsUpTo(ScoredCircles, MaxCircles) :
        /\ \A i \in 1..Len(circles), j \in 1..Len(circles) : i # j => circles[i] # circles[j]
        /\ DetectBall(OnFirstAttempt(circles))

\* the circle counts of one HoughCircles attempt: none, inside and above
\* the ideal range
AttemptResults ==
    {<<>>,
     <<Vec3f(200, 200, 80, 100, 200), Vec3f(600, 600, 80, 100, 200)>>,
     <<Vec3f(200, 200, 80, 100, 200), Vec3f(600, 200, 80, 100, 200),
       Vec3f(600, 600, 80, 100, 200), Vec3f(1000, 600, 39, 100, 200),
       Vec3f(1000, 200, 37, 100, 250)>>}

ScheduleNext ==
    \E attempts \in [1..Len(param2_values) -> AttemptResults] : DetectBall(attempts)

\* histories offered to isBallStable: one short of full, full, and a single
\* entry; the oldest position, the one in the middle and all the others
\* lie 1.5 px left, on, 1.5 px right or 2.5 px right of (100, 100), level
\* with it or 1.5 px below
StableLengths == {1, StabilityHistorySize - 1, StabilityHistorySize}
StableOffsets == {-15, 0, 15, 25}
StableDrops == {0, 15}

StableHistory(n, first, middle, others, drop) ==
    [i \in 1..n |->
        [x |-> 100 * Px + (IF i = 1 THEN first
                           ELSE IF i = (n + 1) \div 2 THEN middle ELSE others),
         y |-> 100 * Px + (IF i = (n + 1) \div 2 THEN drop ELSE 0)]]

\* CameraCalibration::isBallStable on a given m_ballPositionHistory
IsBallStableCall ==
    \E n \in StableLengths, first \in StableOffsets, middle \in StableOffsets,
       others \in StableOffsets, drop \in StableDrops :
        Returns("isBallStable", StableHistory(n, first, middle, others, drop),
                isBallStable(StableHistory(n, first, middle, others, drop)))

(***************************************************************************)
(* KLD2Radar of the standalone test program (test_radar.cpp), run next to  *)
(* KLD2Manager on the same readings.  Both are given the same trigger mode *)
(* and thresholds, so config_.mode, config_.ballThreshold and              *)
(* config_.clubThreshold are read from the manager's m_triggerMode,        *)
(* m_minBallTriggerSpeed and m_minTriggerSpeed (tenths of a mph).          *)
(***************************************************************************)
MaxImpacts == 2          \* cap of impactsDetected_

ToolInit ==
    /\ inSwing_ = FALSE
    /\ maxClubSpeed_ = 0
    /\ ballDetected_ = FALSE
    /\ impactsDetected_ = 0

\* KLD2Radar::processLine on a line that parsed into four integers (lines
\* 349-413); the int speeds are compared with the double thresholds
processLine(approachingSpeed, recedingSpeed) ==
    IF m_triggerMode = "ball"
    THEN /\ IF recedingSpeed * 10 >= m_minBallTriggerSpeed
            THEN IF ~ballDetected_
                 THEN /\ ballDetected_' = TRUE
                      /\ impactsDetected_' = impactsDetected_ + 1
                 ELSE UNCHANGED <<ballDetected_, impactsDetected_>>
            ELSE /\ ballDetected_' = FALSE
                 /\ UNCHANGED impactsDetected_
         /\ UNCHANGED <<inSwing_, maxClubSpeed_>>
    ELSE IF m_triggerMode = "club"
         THEN /\ IF approachingSpeed * 10 >= m_minTriggerSpeed
                 THEN IF ~inSwing_
                      THEN /\ inSwing_' = TRUE
                           /\ maxClubSpeed_' = approachingSpeed
                           /\ UNCHANGED impactsDetected_
                      ELSE /\ maxClubSpeed_' = IF approachingSpeed > maxClubSpeed_
                                               THEN approachingSpeed ELSE maxClubSpeed_
                           /\ UNCHANGED <<inSwing_, impactsDetected_>>
                 ELSE IF inSwing_
                      THEN /\ impactsDetected_' = impactsDetected_ + 1
                           /\ inSwing_' = FALSE
                           /\ maxClubSpeed_' = 0
                      ELSE UNCHANGED <<inSwing_, maxClubSpeed_, impactsDetected_>>
              /\ UNCHANGED ballDetected_
         ELSE UNCHANGED toolvars

\* both programs are configured alike before the radar is started: the
\* manager through its three setters, the test program through its command
\* line, from which main constructs the KLD2Radar
LockstepConfigure(mode, ballThreshold, clubThreshold) ==
    /\ ~kld2_isRunning
    /\ mainPc = "idle"
    /\ impactsDetected_ = 0
    /\ m_triggerMode' = mode
    /\ m_minBallTriggerSpeed' = ballThreshold
    /\ m_minTriggerSpeed' = clubThreshold
    /\ m_inSwing' = IF mode # m_triggerMode THEN FALSE ELSE m_inSwing
    /\ m_maxClubSpeed' = IF mode # m_triggerMode THEN 0 ELSE m_maxClubSpeed
    /\ m_ballDetected' = IF mode # m_triggerMode THEN FALSE ELSE m_ballDetected
    /\ emitted' = (IF mode # m_triggerMode THEN {"triggerModeChanged"} ELSE {})
                    \cup (IF ballThreshold # m_minBallTriggerSpeed
                          THEN {"minBallTriggerSpeedChanged"} ELSE {})
                    \cup (IF clubThreshold # m_minTriggerSpeed
                          THEN {"minTriggerSpeedChanged"} ELSE {})
    /\ inSwing_' = FALSE
    /\ maxClubSpeed_' = 0
    /\ ballDetected_' = FALSE
    /\ impactsDetected_' = 0
    /\ UNCHANGED <<kld2_isRunning, ballRun, swingMax>>
    /\ UNCHANGED cvars
    /\ UNCHANGED <<lvars, bvars, evars, fvars, trajvars, detvars>>

\* one parsed reading handed to both
LockstepReading(approachingSpeed, recedingSpeed) ==
    /\ impactsDetected_ < MaxImpacts
    /\ ProcessSpeedBody(approachingSpeed, recedingSpeed)
    /\ processLine(approachingSpeed, recedingSpeed)
    /\ UNCHANGED <<lvars, bvars, evars, fvars, trajvars, detvars>>

LockstepNext ==
    \/ \E mode \in Modes, b \in BallThresholds, c \in ClubThresholds :
            LockstepConfigure(mode, b, c)
    \/ \E ok \in BOOLEAN : KLD2Start(ok)
    \/ \E a \in ApproachSpeeds, r \in RecedeSpeeds : LockstepReading(a, r)

(***************************************************************************)
(* TrajectoryTracker without a calibration (m_calibration == nullptr):     *)
(* imageToWorld returns the image position with z = 0.  The ball moves     *)
(* along the image's x axis, PixelStep pixels per frame one way or the     *)
(* other, so velocity.y and velocity.z are 0.  Timestamps are microseconds *)
(* since the session's first point.  Velocities are held in units of       *)
(* PixelStep pixels per frame interval, times SpeedScale (the interval     *)
(* counts 1..9 all divide SpeedScale, so the quotients are exact).         *)
(***************************************************************************)
MAX_TRAJECTORY_POINTS == 100
MinMetricPoints == 3         \* stopTracking: m_trajectoryPoints.size() >= 3
VelocityFrames == 10         \* calculateInitialVelocity: std::min(10, size)
ParabolaPoints == 5          \* calculateLaunchAngles: size() >= 5
DefaultVerticalAngle == 12   \* calculateLaunchAngles: verticalAngle = 12.0
MinTimeSpanUs == 1000        \* calculateInitialVelocity: times.back() > 0.001
MphPerMps == 223694          \* ballSpeedMph: 2.23694, in 1/100000
PixelStep == 10
FrameUs == 5000
SpeedScale == 2520
StartX == 100
FreePoints == 2              \* points of a session whose direction is free
MaxOverflow == 2             \* updates made beyond MAX_TRAJECTORY_POINTS
MaxSessions == 2             \* cap of trackingSessions

\* calculateInitialVelocity: the x component (y and z are 0)
calculateInitialVelocity(points) ==
    LET nFrames == Min(VelocityFrames, Len(points))
    IN  IF nFrames < MinMetricPoints
        THEN 0
        ELSE IF points[nFrames].timestamp - points[1].timestamp > MinTimeSpanUs
             THEN ((points[nFrames].x - points[1].x) * SpeedScale * FrameUs)
                      \div ((points[nFrames].timestamp - points[1].timestamp) * PixelStep)
             ELSE 0

\* calculateLaunchAngles, <<vertical, horizontal>> in degrees: atan2(0, h) = 0
\* for h >= 0, atan2(0, vx) is 0 for vx >= 0 and 180 for vx < 0
calculateLaunchAngles(velocity, points) ==
    << IF Len(points) >= ParabolaPoints THEN DefaultVerticalAngle ELSE 0,
       IF velocity < 0 THEN 180 ELSE 0 >>

calculateBallSpeed(velocity) == Abs(velocity)

\* what trackingStopped carries when the metrics come from these points
MetricsOf(points) ==
    IF Len(points) >= MinMetricPoints
    THEN << calculateLaunchAngles(calculateInitialVelocity(points), points)[1],
            calculateLaunchAngles(calculateInitialVelocity(points), points)[2],
            calculateBallSpeed(calculateInitialVelocity(points)) * MphPerMps >>
    ELSE <<0, 0, 0>>

nottraj == <<kvars, cvars, lvars, bvars, evars, fvars, toolvars, detvars>>

StartTracking ==
    /\ ~m_isTracking
    /\ trackingSessions < MaxSessions
    /\ trackingSessions' = trackingSessions + 1
    /\ m_isTracking' = TRUE
    /\ m_trajectoryPoints' = <<>>
    /\ m_launchMetricsCalculated' = FALSE
    /\ UNCHANGED <<m_launchAngleVertical, m_launchAngleHorizontal, m_ballSpeedMps,
                   trackingStopped, updateReturned>>
    /\ UNCHANGED nottraj

\* TrajectoryTracker::stopTracking
StopTracking ==
    /\ m_isTracking
    /\ m_isTracking' = FALSE
    /\ IF Len(m_trajectoryPoints) >= MinMetricPoints
       THEN /\ m_launchAngleVertical' = MetricsOf(m_trajectoryPoints)[1]
            /\ m_launchAngleHorizontal' = MetricsOf(m_trajectoryPoints)[2]
            /\ m_ballSpeedMps' =
                  calculateBallSpeed(calculateInitialVelocity(m_trajectoryPoints))
            /\ m_launchMetricsCalculated' = TRUE
       ELSE UNCHANGED <<m_launchAngleVertical, m_launchAngleHorizontal, m_ballSpeedMps,
                        m_launchMetricsCalculated>>
    /\ trackingStopped' = <<m_launchAngleVertical', m_launchAngleHorizontal',
                            m_ballSpeedMps' * MphPerMps>>
    /\ UNCHANGED <<m_trajectoryPoints, updateReturned, trackingSessions>>
    /\ UNCHANGED nottraj

\* TrajectoryTracker::reset
TrajReset ==
    /\ m_isTracking' = FALSE
    /\ m_trajectoryPoints' = <<>>
    /\ m_launchAngleVertical' = 0
    /\ m_launchAngleHorizontal' = 0
    /\ m_ballSpeedMps' = 0
    /\ m_launchMetricsCalculated' = FALSE
    /\ UNCHANGED <<trackingStopped, updateReturned, trackingSessions>>
    /\ UNCHANGED nottraj

\* the next detection handed to updateTracking: the first points of a session
\* go either way, the later ones down-range; one frame interval apart
NextPoints ==
    IF m_trajectoryPoints = <<>>
    THEN {[x |-> StartX, timestamp |-> 0]}
    ELSE LET last == m_trajectoryPoints[Len(m_trajectoryPoints)]
         IN  {[x |-> last.x + d, timestamp |-> last.timestamp + FrameUs] :
                d \in IF last.timestamp < FreePoints * FrameUs
                      THEN {-PixelStep, PixelStep} ELSE {PixelStep}}

UpdateTracking(point) ==
    /\ IF ~m_isTracking
       THEN /\ updateReturned' = "false"
            /\ UNCHANGED m_trajectoryPoints
       ELSE /\ point.timestamp < (MAX_TRAJECTORY_POINTS + MaxOverflow) * FrameUs
            /\ m_trajectoryPoints' =
                  IF Len(m_trajectoryPoints) + 1 > MAX_TRAJECTORY_POINTS
                  THEN Tail(Append(m_trajectoryPoints, point))
                  ELSE Append(m_trajectoryPoints, point)
            /\ updateReturned' = "true"
    /\ UNCHANGED <<m_isTracking, m_launchAngleVertical, m_launchAngleHorizontal,
                   m_ballSpeedMps, m_launchMetricsCalculated, trackingStopped,
                   trackingSessions>>
    /\ UNCHANGED nottraj

TrajNext ==
    \/ StartTracking
    \/ StopTracking
    \/ TrajReset
    \/ \E point \in NextPoints : UpdateTracking(point)

TrajInit ==
    /\ m_isTracking = FALSE
    /\ m_trajectoryPoints = <<>>
    /\ m_launchAngleVertical = 0
    /\ m_launchAngleHorizontal = 0
    /\ m_ballSpeedMps = 0
    /\ m_launchMetricsCalculated = FALSE
    /\ trackingStopped = <<>>
    /\ updateReturned = "none"
    /\ trackingSessions = 0

(***************************************************************************)
(* BallDetector: the detection history.  A frame is abstracted to what the *)
(* configured detection method finds in it: nothing (radius 0), a ball     *)
(* with confidence at most 0.5 ("weak") or above 0.5 ("good").  A history  *)
(* entry is abstracted to the number of the frame it was detected in; the  *)
(* centre that filterWithHistory smooths is not modelled.                  *)
(***************************************************************************)
MAX_HISTORY == 50
MaxTrackFrames == 52     \* frames handed to trackBall between two resets
MaxMisses == 1           \* trackBall calls that return false

FrameFindings == {"nothing", "weak", "good"}

notdet == <<kvars, cvars, lvars, bvars, evars, fvars, toolvars, trajvars>>

\* BallDetector::addToHistory: push_front, then pop_back beyond MAX_HISTORY
addToHistory(history, entry) ==
    IF Len(history) + 1 > MAX_HISTORY
    THEN SubSeq(<<entry>> \o history, 1, MAX_HISTORY)
    ELSE <<entry>> \o history

\* the history after detectBallWithBackground / detectBall, called by trackBall
detectBallWithBackground(finding, frame) ==
    IF m_backgroundSubtractionEnabled /\ m_background /\ finding # "nothing"
    THEN addToHistory(m_detectionHistory, frame)
    ELSE m_detectionHistory

\* BallDetector::trackBall on the next frame
TrackBall(finding) ==
    /\ trackBallFrames < MaxTrackFrames
    /\ finding # "good" => trackBallMisses < MaxMisses
    /\ trackBallFrames' = trackBallFrames + 1
    /\ IF finding = "good"
       THEN /\ m_detectionHistory' =
                  addToHistory(detectBallWithBackground(finding, trackBallFrames + 1),
                               trackBallFrames + 1)
            /\ trackBallReturned' = "true"
            /\ UNCHANGED trackBallMisses
       ELSE /\ m_detectionHistory' = detectBallWithBackground(finding, trackBallFrames + 1)
            /\ trackBallReturned' = "false"
            /\ trackBallMisses' = trackBallMisses + 1
    /\ UNCHANGED <<m_backgroundSubtractionEnabled, m_background>>
    /\ UNCHANGED notdet

\* BallDetector::setBackgroundSubtractionEnabled, called while the history is empty
SetBackgroundSubtractionEnabled(enabled) ==
    /\ m_detectionHistory = <<>>
    /\ m_backgroundSubtractionEnabled' = enabled
    /\ UNCHANGED <<m_background, m_detectionHistory, trackBallFrames, trackBallReturned,
                   trackBallMisses>>
    /\ UNCHANGED notdet

\* BallDetector::captureBackground with a frame that is not empty
CaptureBackground ==
    /\ m_detectionHistory = <<>>
    /\ m_background' = TRUE
    /\ UNCHANGED <<m_backgroundSubtractionEnabled, m_detectionHistory, trackBallFrames,
                   trackBallReturned, trackBallMisses>>
    /\ UNCHANGED notdet

\* BallDetector::reset; the frames are counted anew
DetReset ==
    /\ m_detectionHistory' = <<>>
    /\ trackBallFrames' = 0
    /\ trackBallMisses' = 0
    /\ UNCHANGED <<m_backgroundSubtractionEnabled, m_background, trackBallReturned>>
    /\ UNCHANGED notdet

DetNext ==
    \/ \E finding \in FrameFindings : TrackBall(finding)
    \/ \E enabled \in BOOLEAN : SetBackgroundSubtractionEnabled(enabled)
    \/ CaptureBackground
    \/ DetReset

DetInit ==
    /\ m_backgroundSubtractionEnabled = FALSE
    /\ m_background = FALSE
    /\ m_detectionHistory = <<>>
    /\ trackBallFrames = 0
    /\ trackBallReturned = "none"
    /\ trackBallMisses = 0

XInit == ToolInit /\ TrajInit /\ DetInit

Init == KInit /\ CInit /\ LInit /\ BInit /\ EInit /\ FInit /\ XInit

\* BallDetector::trackBall frame after frame
SpecDetector == Init /\ [][DetNext]_vars

\* TrajectoryTracker sessions
SpecTrajectory == Init /\ [][TrajNext]_vars

\* the test program and the manager on the same readings
SpecLockstep == Init /\ [][LockstepNext]_vars

SpecStable == Init /\ [][IsBallStableCall]_vars

SpecDetect == Init /\ [][DetectNext]_vars

SpecSchedule == Init /\ [][ScheduleNext]_vars

SpecConcentric == Init /\ [][ConcentricNext]_vars

SpecImpact == Init /\ [][ImpactNext]_vars

TrackerNext ==
    \/ \E calibrated \in BOOLEAN : ArmTracking(calibrated)
    \/ DisarmTracking
    \/ ResetTrackerTracking
    \/ \E frames \in MinFrameChoices : SetMinTrackingFrames(frames)
    \/ \E frames \in MaxFrameChoices : SetMaxTrackingFrames(frames)
    \/ \E f \in TrackerFrames :
          /\ (m_state = "TRIGGERED" /\ ~f.empty /\ ~f.detected) =>
                 m_frameNumber < MaxTriggerWait
          /\ ProcessFrame(f)

SpecTracker == Init /\ [][TrackerNext]_vars

\* one tracking session after another with the default configuration and no
\* user call other than arming an idle tracker
SessionNext ==
    \/ m_state = "IDLE" /\ ArmTracking(TRUE)
    \/ \E f \in TrackerFrames : ProcessFrame(f)

\* the camera keeps delivering frames to the timer slot
FrameArrives == \E f \in TrackerFrames : ~f.empty /\ ProcessFrame(f)

FairSession == Init /\ [][SessionNext]_vars /\ WF_vars(FrameArrives)

LiveNext ==
    \/ \E frame \in Frames :
          (IsMiss(frame) => m_missedFrames < MaxMissed) /\ DetectBallLive(frame)
    \/ ResetTracking
    \/ \E corners \in CornerLists : SetZoneCorners(corners)
    \/ ResetCalibration
    \/ Tick

SpecLive == Init /\ [][LiveNext]_vars

\* the zone state machine on its own: updateBallZoneState called with every
\* combination of arguments, the clock, and resetTracking
ZonePositions == {[x |-> c.x, y |-> c.y] : c \in {CircleRest, CircleMoved}}

ZoneNext ==
    \/ \E ballDetected \in BOOLEAN, inZone \in BOOLEAN, pos \in ZonePositions :
          UpdateBallZoneStateCall(ballDetected, inZone, pos)
    \/ ResetTracking
    \/ Tick

SpecZone == Init /\ [][ZoneNext]_vars

\* a ball at rest behind a long occlusion: frames without a qualifying circle
OcclusionFrames == {f \in Frames : ~f.empty /\ ~ShowsMove(f) /\ CircleOccluded \notin
                                                    {f.circles[i] : i \in 1..Len(f.circles)}}

OcclusionNext ==
    \/ \E frame \in OcclusionFrames :
          (IsMiss(frame) => m_missedFrames < MaxOcclusion) /\ DetectBallLive(frame)
    \/ \E corners \in {ZoneNear, ZoneFar} : SetZoneCorners(corners)

SpecOcclusion == Init /\ [][OcclusionNext]_vars

\* the configuration calls offered to the controller
ZoneChoices == {<<4, 4, 2>>, <<4, 4, 0>>}
TargetChoices == {<<160, 200, 180>>, <<179, 181, 180>>}
ShutterLimitChoices == {<<500, 1500>>, <<1000, 1500>>}
GainLimitChoices == {<<1 * GainUnit, 16 * GainUnit>>, <<12 * GainUnit, 16 * GainUnit>>}
ModeChoices == {"AUTO", "OUTDOOR_BRIGHT", "INDOOR_DIM"}
SpeedChoices == {0, 15}

ExposureNext ==
    \/ \E z \in ZoneChoices :
          configCalls < MaxConfigCalls /\ SetBallZone(z[1], z[2], z[3])
    \/ \E mode \in ModeChoices :
          configCalls < MaxConfigCalls /\ SetPresetMode(mode)
    \/ \E t \in TargetChoices :
          configCalls < MaxConfigCalls /\ SetTargetBrightness(t[1], t[2], t[3])
    \/ \E l \in ShutterLimitChoices :
          configCalls < MaxConfigCalls /\ SetShutterLimits(l[1], l[2])
    \/ \E l \in GainLimitChoices :
          configCalls < MaxConfigCalls /\ SetGainLimits(l[1], l[2])
    \/ \E speed \in SpeedChoices :
          configCalls < MaxConfigCalls /\ SetAdjustmentSpeed(speed)
    \/ ExposureReset
    \/ \E frame \in AEFrames, force \in BOOLEAN :
          aeUpdates < MaxAEUpdates /\ Update(frame, force)
    \/ ExposureTick

SpecExposure == Init /\ [][ExposureNext]_vars

\* a scene of one constant brightness outside the default target band: the
\* controller is configured, then fed frames of that brightness only
SceneBrightnesses == {0, 100, 230, 255}

\* the brightness pushed by the latest update that measured
LastBrightness ==
    m_brightness_history[((m_history_index + HISTORY_SIZE - 1) % HISTORY_SIZE) + 1]

ConstantUpdate(b) ==
    /\ m_history_count > 0 => LastBrightness = b
    /\ Update(Image(b), FALSE)

SceneUpdate == \E b \in SceneBrightnesses : ConstantUpdate(b)

ConvergeNext ==
    \/ m_history_count = 0 /\ configCalls < MaxConfigCalls
          /\ \/ \E mode \in ModeChoices : SetPresetMode(mode)
             \/ \E t \in TargetChoices : SetTargetBrightness(t[1], t[2], t[3])
             \/ \E l \in ShutterLimitChoices : SetShutterLimits(l[1], l[2])
             \/ \E l \in GainLimitChoices : SetGainLimits(l[1], l[2])
             \/ \E speed \in SpeedChoices : SetAdjustmentSpeed(speed)
    \/ SceneUpdate
    \/ ExposureTick

\* the caller keeps calling update and the steady clock keeps advancing
SpecConverge ==
    Init /\ [][ConvergeNext]_vars /\ WF_vars(SceneUpdate) /\ WF_vars(ExposureTick)

\* radar readings offered while capturing: silence, a club swing, a ball
CaptureApproachSpeeds == {0, 60}
CaptureRecedeSpeeds == {0, 13}

Next ==
    \/ \E a \in CaptureApproachSpeeds, r \in CaptureRecedeSpeeds : ProcessSpeed(a, r)
    \/ \E m \in Modes : SetTriggerMode(m)
    \/ \E ok \in BOOLEAN : StartCapture(ok)
    \/ StopCapture
    \/ StopJoin
    \/ \E ok \in BOOLEAN : CL_Setup(ok)
    \/ CL_Exit
    \/ CL_ReadFail
    \/ \E det \in Detections : CL_Frame(det)
    \/ CL_Confirmed
    \/ CL_Practice
    \/ CL_StoreImpact
    \/ CL_StoreWaiting

Spec == Init /\ [][Next]_vars

\* the capture loop while frames keep arriving: no stopCapture, no read
\* failure; the capture thread keeps running (weak fairness of its steps)
FrameArrivesCapture == \E det \in Detections : CL_Frame(det)

CaptureThreadStep == CL_Confirmed \/ CL_Practice \/ CL_StoreImpact \/ CL_StoreWaiting

FairCaptureNext ==
    \/ \E a \in CaptureApproachSpeeds, r \in CaptureRecedeSpeeds : ProcessSpeed(a, r)
    \/ \E ok \in BOOLEAN : StartCapture(ok)
    \/ \E ok \in BOOLEAN : CL_Setup(ok)
    \/ FrameArrivesCapture
    \/ CL_Confirmed
    \/ CL_Practice
    \/ CL_StoreImpact
    \/ CL_StoreWaiting

FairCapture ==
    Init /\ [][FairCaptureNext]_vars /\ WF_vars(FrameArrivesCapture)
         /\ WF_vars(CaptureThreadStep)

RadarNext ==
    \/ \E a \in ApproachSpeeds, r \in RecedeSpeeds : ProcessSpeed(a, r)
    \/ \E s \in ClubThresholds : SetMinTriggerSpeed(s)
    \/ \E s \in BallThresholds : SetMinBallTriggerSpeed(s)
    \/ \E m \in TriggerModeStrings : SetTriggerMode(m)
    \/ \E ok \in BOOLEAN : KLD2Start(ok)
    \/ KLD2Stop

SpecRadar == Init /\ [][RadarNext]_vars

(***************************************************************************)
(* Radar trigger policy (KLD2Manager::processSpeed)                        *)
(***************************************************************************)

\* C7: in ball mode impactDetected (always together with ballDetected) is
\* emitted exactly by the first reading of each maximal run of readings that
\* meet the ball condition, and by no later reading of that run.
C7_BallLatchOncePerRun ==
    [][\A a \in ApproachSpeeds, r \in RecedeSpeeds :
          (m_triggerMode = "ball" /\ ProcessSpeed(a, r)) =>
              /\ ("impactDetected" \in emitted') <=> (ballRun' = 1)
              /\ ("ballDetected" \in emitted') <=> ("impactDetected" \in emitted')
              /\ m_ballDetected' <=> (ballRun' > 0)]_vars

\* a second reading of a run has been processed and emitted no impact
C7_Witness ==
    /\ m_triggerMode = "ball"
    /\ ballRun = 2
    /\ m_ballDetected
    /\ "ballSpeedUpdated" \in emitted
    /\ "impactDetected" \notin emitted

C3_PracticeSwing ==
    [][/\ \A det \in Detections :
            (/\ CL_Frame(det)
             /\ m_useKLD2Trigger
             /\ m_kld2ImpactDetected
             /\ LockedAfter(det)
             /\ isSameBall(OriginalAfter(det), det)
             /\ (det.y - OriginalAfter(det).y) * ImpactDirection <= ImpactThreshold)
            => (/\ pc' = "practice"
                /\ shotLog' = shotLog
                /\ ballLocked'
                /\ originalBall' = OriginalAfter(det))
       /\ pc \in {"practice", "practice_impact", "practice_waiting"} =>
            (/\ shotLog' = shotLog
             /\ ballLocked /\ ballLocked'
             /\ originalBall' = originalBall
             /\ pc' \in {pc, "practice_impact", "practice_waiting", "top"})
       /\ (pc = "practice" /\ pc' # pc) => (~m_kld2Triggered' /\ pc' = "practice_impact")
       /\ (pc = "practice_impact" /\ pc' # pc) =>
            (~m_kld2ImpactDetected' /\ pc' = "practice_waiting")
       /\ (pc = "practice_waiting" /\ pc' # pc) => (~m_waitingForImpact' /\ pc' = "top")]_vars

\* a practice swing over a ball that sits exactly the threshold away from its
\* lock position, two flags already cleared
C3_Witness ==
    /\ pc = "practice_waiting"
    /\ ballLocked
    /\ originalBall = BallAt(100, 100)
    /\ ~m_kld2Triggered
    /\ ~m_kld2ImpactDetected
    /\ shotLog = <<>>

C9_ImpactWithinWindow == pc = "confirmed" => impactAge <= WindowFrames

(***************************************************************************)
(* Live tracking and the ball zone state machine (CameraCalibration)       *)
(***************************************************************************)

\* C1: every updateBallZoneState call made while READY leaves the state
\* READY when the ball was detected in the zone and IMPACT_DETECTED when
\* not; no frame takes READY to any other state.
C1_ReadyLeavesOnlyToImpact ==
    [][\A frame \in Frames :
          (m_ballZoneState = "READY" /\ DetectBallLive(frame)) =>
              /\ m_ballZoneState' \in {"READY", "IMPACT_DETECTED"}
              /\ (~frame.empty /\ BestCircles(frame.circles) # <<>>) =>
                     m_ballZoneState' = IF result'.detected /\ result'.inZone
                                        THEN "READY" ELSE "IMPACT_DETECTED"]_vars

\* READY was left on a frame whose ball was detected outside the zone
C1_Witness ==
    /\ m_ballZoneState = "IMPACT_DETECTED"
    /\ m_isArmed
    /\ result.detected
    /\ ~result.inZone
    /\ m_ballPositionHistory = <<>>

\* C2: while READY, every frame that finds no ball in the zone (no circle, or
\* no qualifying circle) moves the state to IMPACT_DETECTED on that frame.
C2_MissWhileReadyIsImpact ==
    [][\A frame \in Frames :
          (m_ballZoneState = "READY" /\ IsMiss(frame) /\ DetectBallLive(frame)) =>
              m_ballZoneState' = "IMPACT_DETECTED"]_vars

\* C5: once the consecutive misses exceed the prediction window the track is
\* dropped, whichever kind of miss the frames were.
C5_TrackDroppedPastWindow ==
    m_missedFrames > PredictionWindow =>
        (~m_liveTrackingInitialized /\ m_trackingConfidence = 0)

\* C6: on an initialised track at full confidence every missed frame under
\* the prediction window reports the ball detected at the extrapolated
\* position with the last radius, and changes nothing but the miss counter.
C6_MissUnderWindowPredicts ==
    [][\A frame \in Frames :
          (/\ m_liveTrackingInitialized
           /\ m_trackingConfidence = FullConfidence
           /\ m_missedFrames + 1 < PredictionWindow
           /\ IsMiss(frame)
           /\ DetectBallLive(frame)) =>
              /\ result'.detected
              /\ result'.x = m_smoothedBallX + m_ballVelocityX * (m_missedFrames + 1)
              /\ result'.y = m_smoothedBallY + m_ballVelocityY * (m_missedFrames + 1)
              /\ result'.radius = m_lastBallRadius
              /\ m_missedFrames' = m_missedFrames + 1
              /\ UNCHANGED <<m_liveTrackingInitialized, m_trackingConfidence, m_smoothedBallX,
                             m_smoothedBallY, m_ballVelocityX, m_ballVelocityY>>]_vars

(***************************************************************************)
(* Tracking sessions (BallTracker)                                         *)
(***************************************************************************)

\* C10: once the tracker has triggered and frames keep arriving, the session
\* eventually completes (COMPLETE) or fails and is disarmed (IDLE).
C10_TriggeredSessionTerminates ==
    (m_state = "TRIGGERED") ~> (m_state \in {"COMPLETE", "IDLE"})

\* C11: a processed frame on which tracking stops (the detected ball fails
\* validation, or no ball is found after the grace of 5 positions) with fewer
\* than m_minTrackingFrames positions emits trackingFailed and disarms the
\* tracker (IDLE, timer stopped); a frame emits trackingComplete or
\* trajectoryReady only with at least m_minTrackingFrames positions.
C11_ShortTrackFailsAndDisarms ==
    [][\A f \in TrackerFrames :
          (ProcessFrame(f) /\ ~f.empty) =>
              /\ (/\ m_state \in {"TRIGGERED", "TRACKING"}
                  /\ \/ f.detected /\ ~f.valid
                     \/ ~f.detected /\ Len(m_trackedPositions) > MissGrace
                  /\ Len(m_trackedPositions) < m_minTrackingFrames) =>
                     /\ trackerSignals' = {"trackingFailed"}
                     /\ m_state' = "IDLE"
                     /\ ~timerActive'
              /\ (trackerSignals' \cap {"trackingComplete", "trajectoryReady"} # {}) =>
                     /\ Len(m_trackedPositions') >= m_minTrackingFrames
                     /\ trackerSignals' = {"trackingComplete", "trajectoryReady"}
                     /\ m_state' = "COMPLETE"]_vars

\* a session was torn down with more than the grace but fewer than the
\* minimum number of positions
C11_Witness ==
    /\ m_state = "IDLE"
    /\ ~timerActive
    /\ trackerSignals = {"trackingFailed"}
    /\ Len(m_trackedPositions) > MissGrace
    /\ Len(m_trackedPositions) < m_minTrackingFrames

(***************************************************************************)
(* Reset and the zone state machine (CameraCalibration)                    *)
(***************************************************************************)

\* C12: resetTracking, called in any state, leaves the members a fresh
\* instance has (NO_BALL, not armed, empty history, track uninitialised,
\* confidence 0, no misses); and what it leaves behind is never read before
\* it is overwritten: on an uninitialised track the outcome of a frame is
\* given by the frame, the zone and the miss counter alone, without the
\* smoothed position, the velocity or the radius, and outside
\* BALL_IN_ZONE_STABLE the next zone state is given without the stable-start
\* time, which is set anew on entering BALL_IN_ZONE_STABLE.
C12_ResetLikeFresh ==
    [][/\ ResetTracking =>
              /\ m_ballZoneState' = "NO_BALL"
              /\ ~m_isArmed'
              /\ m_ballPositionHistory' = <<>>
              /\ ~m_liveTrackingInitialized'
              /\ ~m_kalmanInitialized'
              /\ m_trackingConfidence' = 0
              /\ m_missedFrames' = 0
       /\ \A frame \in Frames :
              (~m_liveTrackingInitialized /\ ~frame.empty /\ DetectBallLive(frame)) =>
                  LET fresh == SelectSeq(frame.circles,
                                   LAMBDA c : /\ InZoneAt(c.x, c.y) \/ ~m_isZoneDefined
                                              /\ c.r >= MinRadius /\ c.r <= MaxRadius
                                              /\ c.sd <= FarCircularity)
                  IN IF fresh = <<>>
                     THEN /\ result' = DefaultResult
                          /\ m_missedFrames' = m_missedFrames + 1
                          /\ ~m_liveTrackingInitialized'
                          /\ UNCHANGED statevars
                     ELSE /\ result' = [detected |-> TRUE, x |-> fresh[1].x, y |-> fresh[1].y,
                                        radius |-> fresh[1].r,
                                        inZone |-> InZoneAt(fresh[1].x, fresh[1].y)]
                          /\ m_smoothedBallX' = fresh[1].x
                          /\ m_smoothedBallY' = fresh[1].y
                          /\ m_ballVelocityX' = 0
                          /\ m_ballVelocityY' = 0
                          /\ m_lastBallRadius' = fresh[1].r
                          /\ m_missedFrames' = 0
                          /\ m_liveTrackingInitialized'
       /\ \A frame \in Frames :
              (m_ballZoneState # "BALL_IN_ZONE_STABLE" /\ DetectBallLive(frame)) =>
                  /\ m_ballZoneState' \in
                        {m_ballZoneState,
                         ZoneTransition(m_ballZoneState, TRUE, result'.inZone,
                                        isBallStable(m_ballPositionHistory'), FALSE)}
                  /\ (m_ballZoneState' = "BALL_IN_ZONE_STABLE") => m_stableStartTime' = now]_vars

\* resetTracking was called on a track that had been followed and had
\* dwelt in the zone: the old position, radius and stable-start time are
\* still stored behind the cleared flags
C12_Witness ==
    /\ ~m_liveTrackingInitialized
    /\ m_trackingConfidence = 0
    /\ m_missedFrames = 0
    /\ m_ballZoneState = "NO_BALL"
    /\ m_ballPositionHistory = <<>>
    /\ m_smoothedBallX # 0
    /\ m_lastBallRadius # 0
    /\ m_stableStartTime > 0

\* C13: an updateBallZoneState call with the ball not detected or not in the
\* zone leaves the stability history empty; the history never holds more
\* than 15 positions, and they are the latest positions of the current
\* unbroken run of detected-in-zone updates.
C13_HistoryIsLatestRun ==
    /\ [](/\ Len(m_ballPositionHistory) <= StabilityHistorySize
          /\ m_ballPositionHistory =
                IF Len(zoneRun) <= StabilityHistorySize
                THEN zoneRun
                ELSE SubSeq(zoneRun, Len(zoneRun) - StabilityHistorySize + 1, Len(zoneRun)))
    /\ [][\A ballDetected \in BOOLEAN, inZone \in BOOLEAN, pos \in ZonePositions :
              (UpdateBallZoneStateCall(ballDetected, inZone, pos)
                  /\ ~(ballDetected /\ inZone)) =>
                     m_ballPositionHistory' = <<>>]_vars

\* a run longer than the history: the oldest position has been dropped
C13_Witness ==
    /\ Len(zoneRun) > StabilityHistorySize
    /\ Len(m_ballPositionHistory) = StabilityHistorySize
    /\ m_ballPositionHistory[1] # zoneRun[1]

\* C14: the state becomes READY only from BALL_IN_ZONE_STABLE, by an update
\* with the ball detected in the zone whose history is stable, at least
\* 1000 ms after the state entered BALL_IN_ZONE_STABLE; that update sets the
\* armed flag, and at least 15 detected-in-zone updates in a row came
\* before it.
C14_ReadyOnlyAfterDwell ==
    [][(m_ballZoneState' = "READY" /\ m_ballZoneState # "READY") =>
           /\ m_ballZoneState = "BALL_IN_ZONE_STABLE"
           /\ \E pos \in ZonePositions : UpdateBallZoneStateCall(TRUE, TRUE, pos)
           /\ isBallStable(m_ballPositionHistory')
           /\ now - stableEntered >= ReadyRequiredMs
           /\ m_isArmed'
           /\ Len(zoneRun) >= StabilityHistorySize]_vars

\* READY was reached a full dwell time after the ball came to rest
C14_Witness ==
    /\ m_ballZoneState = "READY"
    /\ m_isArmed
    /\ now - stableEntered >= ReadyRequiredMs
    /\ Len(zoneRun) > StabilityHistorySize
    /\ isBallStable(m_ballPositionHistory)

\* C15: an updateBallZoneState call made in IMPACT_DETECTED moves the state
\* to POST_IMPACT whatever its arguments; a call made in POST_IMPACT keeps
\* it; and POST_IMPACT is left by resetTracking alone, for NO_BALL.
C15_PostImpactUntilReset ==
    [][/\ \A ballDetected \in BOOLEAN, inZone \in BOOLEAN, pos \in ZonePositions :
              UpdateBallZoneStateCall(ballDetected, inZone, pos) =>
                  /\ m_ballZoneState = "IMPACT_DETECTED" => m_ballZoneState' = "POST_IMPACT"
                  /\ m_ballZoneState = "POST_IMPACT" => m_ballZoneState' = "POST_IMPACT"
       /\ (m_ballZoneState = "POST_IMPACT" /\ m_ballZoneState' # "POST_IMPACT") =>
              (ResetTracking /\ m_ballZoneState' = "NO_BALL")
       /\ (m_ballZoneState = "IMPACT_DETECTED" /\ m_ballZoneState' # "IMPACT_DETECTED") =>
              m_ballZoneState' \in {"POST_IMPACT", "NO_BALL"}]_vars

\* POST_IMPACT was kept by a later update that saw the ball in the zone again
C15_Witness ==
    /\ m_ballZoneState = "POST_IMPACT"
    /\ m_impactTime > 0
    /\ Len(m_ballPositionHistory) > 1

(***************************************************************************)
(* Exposure control (AutoExposureController)                               *)
(***************************************************************************)

\* C16: fed frames of one constant brightness outside the target band, no
\* update lowers gain or shutter while the scene is too dark, none raises
\* them while it is too bright, and from some update on no adjustment is
\* made any more.
C16_ConstantSceneSettles ==
    /\ [][\A b \in SceneBrightnesses :
              ConstantUpdate(b) =>
                  /\ b < m_target_min =>
                         /\ m_current_gain' >= m_current_gain
                         /\ m_current_shutter' >= m_current_shutter
                  /\ b > m_target_max =>
                         /\ m_current_gain' <= m_current_gain
                         /\ m_current_shutter' <= m_current_shutter]_vars
    /\ <>[](~adjustment.adjusted)

\* a dark scene has driven the gain and then the shutter to their maxima
C16_Witness ==
    /\ m_auto_enabled
    /\ m_history_count = HISTORY_SIZE
    /\ LastBrightness < m_target_min
    /\ adjustment.reason = "at_max_exposure"
    /\ m_current_gain = m_max_gain
    /\ m_current_shutter = m_max_shutter
    /\ m_current_shutter > DefaultShutter

\* C17: after every call the shutter and the gain held by the controller lie
\* within the configured limits, and so do the shutter and the gain of the
\* result every update returns.
C17_ExposureWithinLimits ==
    [][/\ m_current_shutter' >= m_min_shutter' /\ m_current_shutter' <= m_max_shutter'
       /\ m_current_gain' >= m_min_gain' /\ m_current_gain' <= m_max_gain'
       /\ \A frame \in AEFrames, force \in BOOLEAN :
              Update(frame, force) =>
                  /\ adjustment'.shutter_us >= m_min_shutter
                  /\ adjustment'.shutter_us <= m_max_shutter
                  /\ adjustment'.gain >= m_min_gain
                  /\ adjustment'.gain <= m_max_gain]_vars

\* C18: an update that measured a smoothed brightness outside the target
\* band and changed neither shutter nor gain reports at_max_exposure (too
\* dark) or at_min_exposure (too bright); no result carries an increased_*
\* or decreased_* reason with adjusted = FALSE.
C18_UnchangedMeansAtLimit ==
    [][\A frame \in AEFrames, force \in BOOLEAN :
          (Update(frame, force) /\ ~adjustment'.adjusted) =>
              /\ adjustment'.reason \notin {"increased_gain", "increased_shutter",
                                            "decreased_gain", "decreased_shutter"}
              /\ (/\ adjustment'.reason \notin {"manual_mode", "rate_limited",
                                                  "invalid_measurement"}
                  /\ adjustment'.brightness < m_target_min * BrightnessUnit) =>
                     adjustment'.reason = "at_max_exposure"
              /\ (/\ adjustment'.reason \notin {"manual_mode", "rate_limited",
                                                  "invalid_measurement"}
                  /\ adjustment'.brightness > m_target_max * BrightnessUnit) =>
                     adjustment'.reason = "at_min_exposure"]_vars

\* C19 as stated: every update given a null frame or a measurement region
\* without pixels returns invalid_measurement with adjusted = FALSE and
\* leaves shutter, gain, the brightness history and the last-adjustment
\* time unchanged.
C19_InvalidMeasurementAlways ==
    [][\A frame \in AEFrames, force \in BOOLEAN :
          (Update(frame, force) /\ ~measureBrightness(frame)) =>
              /\ adjustment'.reason = "invalid_measurement"
              /\ ~adjustment'.adjusted
              /\ UNCHANGED <<exposure, ringvars, sinceAdjustment>>]_vars

\* C19 amended: an update given a null frame or a measurement region
\* without pixels changes neither shutter, gain, the brightness history nor
\* the last-adjustment time and reports adjusted = FALSE; its reason is
\* invalid_measurement when the call gets as far as the measurement (auto
\* mode or forced, and forced or not rate-limited), manual_mode or
\* rate_limited when it is turned away before.
C19_InvalidMeasurementWhenMeasured ==
    [][\A frame \in AEFrames, force \in BOOLEAN :
          (Update(frame, force) /\ ~measureBrightness(frame)) =>
              /\ ~adjustment'.adjusted
              /\ UNCHANGED <<exposure, ringvars, sinceAdjustment>>
              /\ adjustment'.reason =
                    IF ~m_auto_enabled /\ ~force THEN "manual_mode"
                    ELSE IF ~force /\ sinceAdjustment < MinAdjustmentIntervalMs
                    THEN "rate_limited"
                    ELSE "invalid_measurement"]_vars

\* an update could not measure although earlier updates had filled part of
\* the ring and moved the gain
C19_Witness ==
    /\ adjustment.reason = "invalid_measurement"
    /\ ~adjustment.adjusted
    /\ m_history_count > 0
    /\ m_current_gain # DefaultGain
    /\ adjustment.gain = m_current_gain

\* C20: in auto mode a non-forced update given a measurable frame less than
\* the minimum adjustment interval after a non-forced update wrote shutter,
\* gain or the brightness history returns rate_limited and writes none of
\* them.
C20_OneMutationPerInterval ==
    [][\A b \in Brightnesses :
          (/\ m_auto_enabled
           /\ sinceMutation < MinAdjustmentIntervalMs
           /\ measureBrightness(Image(b))
           /\ Update(Image(b), FALSE)) =>
              /\ adjustment'.reason = "rate_limited"
              /\ UNCHANGED <<exposure, ringvars>>]_vars

\* C21: an update whose smoothed brightness lies within [target_min,
\* target_max] returns adjusted = FALSE with reason within_target and leaves
\* shutter, gain and the last-adjustment time unchanged.
C21_WithinBandNoChange ==
    [][\A frame \in AEFrames, force \in BOOLEAN :
          (/\ Update(frame, force)
           /\ adjustment'.brightness >= m_target_min * BrightnessUnit
           /\ adjustment'.brightness <= m_target_max * BrightnessUnit) =>
              /\ adjustment'.reason = "within_target"
              /\ ~adjustment'.adjusted
              /\ UNCHANGED <<exposure, sinceAdjustment>>]_vars

\* an update found the smoothed brightness in the band after an earlier
\* update had moved the gain less than the minimum interval before
C21_Witness ==
    /\ adjustment.reason = "within_target"
    /\ adjustment.brightness >= m_target_min * BrightnessUnit
    /\ adjustment.brightness <= m_target_max * BrightnessUnit
    /\ m_history_count >= 2
    /\ m_current_gain # DefaultGain
    /\ m_auto_enabled
    /\ sinceAdjustment > 0
    /\ sinceAdjustment < MinAdjustmentIntervalMs

\* C22: a single update changes at most one of shutter and gain, and it
\* changes the shutter only when the gain is already at its limit in the
\* needed direction: at or above max_gain when the smoothed brightness is
\* below the band, at or below min_gain when it is above.
C22_GainBeforeShutter ==
    [][\A frame \in AEFrames, force \in BOOLEAN :
          Update(frame, force) =>
              /\ ~(m_current_shutter' # m_current_shutter /\ m_current_gain' # m_current_gain)
              /\ m_current_shutter' # m_current_shutter =>
                    \/ /\ adjustment'.brightness < m_target_min * BrightnessUnit
                       /\ m_current_gain >= m_max_gain
                       /\ m_current_shutter' > m_current_shutter
                    \/ /\ adjustment'.brightness > m_target_max * BrightnessUnit
                       /\ m_current_gain <= m_min_gain
                       /\ m_current_shutter' < m_current_shutter]_vars

\* an update lengthened the shutter after the gain had climbed to its maximum
C22_Witness ==
    /\ adjustment.reason = "increased_shutter"
    /\ adjustment.adjusted
    /\ m_current_gain = m_max_gain
    /\ m_current_gain > DefaultGain
    /\ m_current_shutter > DefaultShutter

\* C23: setPresetMode with a preset other than AUTO leaves the controller
\* holding that preset's shutter and gain with isAutoMode false; from then
\* until AUTO is selected or the controller is reset every non-forced update
\* returns manual_mode and changes neither shutter, gain nor the brightness
\* history; setPresetMode(AUTO) enables automatic adjustment and leaves
\* shutter and gain as they are.
C23_PresetDisablesAuto ==
    /\ [](m_auto_enabled <=> m_current_mode = "AUTO")
    /\ [][\A mode \in PresetModes \ {"AUTO"} :
            SetPresetMode(mode) =>
                /\ m_current_shutter' = PRESETS[mode].shutter_us
                /\ m_current_gain' = PRESETS[mode].gain
                /\ ~m_auto_enabled']_vars
    /\ [][\A frame \in AEFrames :
            (m_current_mode # "AUTO" /\ Update(frame, FALSE)) =>
                /\ adjustment'.reason = "manual_mode"
                /\ ~adjustment'.adjusted
                /\ UNCHANGED <<exposure, ringvars>>]_vars
    /\ [][SetPresetMode("AUTO") => (m_auto_enabled' /\ UNCHANGED exposure)]_vars

\* a non-forced update was turned away under the indoor-dim preset, whose
\* shutter and gain the controller holds, with brightness already in the ring
C23_Witness ==
    /\ m_current_mode = "INDOOR_DIM"
    /\ ~m_auto_enabled
    /\ adjustment.reason = "manual_mode"
    /\ m_current_shutter = PRESETS["INDOOR_DIM"].shutter_us
    /\ m_current_gain = PRESETS["INDOOR_DIM"].gain
    /\ m_history_count > 0

(***************************************************************************)
(* Stateless helpers                                                       *)
(***************************************************************************)

\* C24: detect_impact and CaptureManager::detectImpact return true exactly
\* when the displacement along the configured axis (0: x, anything else: y)
\* times the direction sign is strictly greater than the threshold;
\* displacement against the down-range direction, or along the other axis
\* only, never yields true; detectImpact also returns false when either
\* detection is absent (negative radius).
C24_DirectionalImpact ==
    called \in {"detect_impact", "detectImpact"} =>
        LET along == IF input.axis = 0 THEN input.curr_x - input.prev_x
                                       ELSE input.curr_y - input.prev_y
            present == called = "detect_impact" \/ (input.prev_r >= 0 /\ input.curr_r >= 0)
        IN /\ output = (present /\ along * input.direction > input.threshold)
           /\ along * input.direction <= 0 => ~output
           /\ along = 0 => ~output
           /\ ~present => ~output

\* detectImpact reported an impact for a move of 11 pixels in the negative x
\* direction, with x configured as the down-range axis and a threshold of 10,
\* next to a move of 300 pixels along y
C24_Witness ==
    /\ called = "detectImpact"
    /\ output = TRUE
    /\ input.axis = 0
    /\ input.direction = -1
    /\ input.threshold = 10
    /\ input.curr_x - input.prev_x = -11
    /\ input.curr_y - input.prev_y = 300

\* C25: after the concentric-circle removal of detect_ball no two retained
\* circles have rounded centres within the 10-pixel tolerance of each other
\* (less than 10 apart along x and along y), every discarded circle is within
\* the tolerance of a circle retained before it, the first circle is always
\* retained, and two circles within the tolerance of each other collapse to
\* one.
C25_ConcentricCollapse ==
    called = "detect_ball" =>
        LET circles == output.circles
            near(i, j) ==
                /\ Abs(cvRound(circles[i].x) - cvRound(circles[j].x)) < 10
                /\ Abs(cvRound(circles[i].y) - cvRound(circles[j].y)) < 10
        IN /\ \E retained \in SUBSET (1..Len(circles)) :
                /\ Len(output.filtered_circles) = Cardinality(retained)
                /\ \A k \in 1..Len(output.filtered_circles) :
                      \E i \in retained :
                          /\ Cardinality({j \in retained : j < i}) = k - 1
                          /\ output.filtered_circles[k] = circles[i]
                /\ \A i \in retained, j \in retained : i # j => ~near(i, j)
                /\ \A i \in (1..Len(circles)) \ retained :
                      \E j \in retained : j < i /\ near(i, j)
                /\ circles # <<>> => 1 \in retained
           /\ (Len(circles) = 2 /\ near(1, 2)) => output.filtered_circles = <<circles[1]>>

\* three circles along a line, at 100, 108.5 and 117: the second was merged
\* into the first, and the third, 9 pixels from the rounded centre of the
\* discarded one and 17 from the first, was retained
C25_Witness ==
    /\ called = "detect_ball"
    /\ Len(output.circles) = 3
    /\ cvRound(output.circles[1].x) = 100
    /\ cvRound(output.circles[2].x) = 108
    /\ cvRound(output.circles[3].x) = 117
    /\ \A i \in 1..3 : output.circles[i].y = 200
    /\ output.filtered_circles = <<output.circles[1], output.circles[3]>>

\* C28: detect_ball returns a circle only if the circle passes every gate
\* (bounding box inside the frame, radius within 20..100, mean brightness of
\* its region at least 40, peak minus mean at least 30), the circle returned
\* has the highest score of all circles passing the gates, the earliest of
\* them on a tie, and no detection is returned when no circle passes.
C28_BestGatedCircle ==
    called = "detect_ball" =>
        LET circles == output.circles
            x(i) == cvRound(circles[i].x)
            y(i) == cvRound(circles[i].y)
            r(i) == cvRound(circles[i].r)
            passing == {i \in 1..Len(circles) :
                           /\ x(i) - r(i) >= 0 /\ x(i) + r(i) < FrameCols
                           /\ y(i) - r(i) >= 0 /\ y(i) + r(i) < FrameRows
                           /\ r(i) >= 20 /\ r(i) <= 100
                           /\ circles[i].mean >= 40
                           /\ circles[i].max - circles[i].mean >= 30}
        IN IF passing = {}
           THEN output.detection = NoDetection
           ELSE \E i \in passing :
                   /\ output.detection = [x |-> x(i), y |-> y(i), r |-> r(i)]
                   /\ \A j \in passing : Score(circles[j]) <= Score(circles[i])
                   /\ \A j \in passing : j < i => Score(circles[j]) < Score(circles[i])

\* of two balls of equal score the earlier one was returned, past a brighter
\* circle whose radius rounds to 18
C28_Witness ==
    /\ called = "detect_ball"
    /\ Len(output.circles) = 3
    /\ output.circles[1] = Vec3f(1000, 200, 37, 100, 250)
    /\ output.circles[2] = Vec3f(600, 200, 80, 100, 200)
    /\ output.circles[3] = Vec3f(200, 200, 80, 100, 200)
    /\ output.detection = [x |-> 300, y |-> 100, r |-> 40]

\* C29: detect_ball tries the entries of its sensitivity schedule in order,
\* at most once each (7 attempts); it stops at the first attempt that finds
\* between 1 and 4 circles, otherwise it keeps the first non-empty result;
\* its candidate list is empty exactly when every attempt finds no circle.
C29_IdealRangeSchedule ==
    called = "detect_ball" =>
        LET ideal == {i \in 1..7 : Len(input[i]) >= 1 /\ Len(input[i]) <= 4}
            nonempty == {i \in 1..7 : input[i] # <<>>}
            first(S) == CHOOSE i \in S : \A j \in S : i <= j
        IN /\ output.tried <= 7
           /\ output.circles = <<>> <=> nonempty = {}
           /\ ideal # {} =>
                 (output.tried = first(ideal) /\ output.circles = input[first(ideal)])
           /\ (ideal = {} /\ nonempty # {}) => output.circles = input[first(nonempty)]

\* C26: isBallStable returns true only when the history holds the full 15
\* positions and the largest displacement between any two of them is below
\* the stability threshold of 2 pixels; with fewer than 15 positions it
\* returns false.
C26_StableMeansTightCluster ==
    called = "isBallStable" =>
        /\ Len(input) < 15 => output = FALSE
        /\ output = TRUE =>
              /\ Len(input) = 15
              /\ \A i \in 1..Len(input), j \in 1..Len(input) :
                    (input[i].x - input[j].x) * (input[i].x - input[j].x)
                      + (input[i].y - input[j].y) * (input[i].y - input[j].y)
                        < (2 * Px) * (2 * Px)

\* C27: in ball mode impactDetected is emitted only for a reading whose
\* receding speed exceeds the configured minBallTriggerSpeed, whether that
\* threshold is a whole number of mph or not; a reading equal to or below
\* the threshold never triggers.
C27_ImpactAboveBallThreshold ==
    [][\A a \in ApproachSpeeds, r \in RecedeSpeeds :
          (/\ m_triggerMode = "ball"
           /\ ProcessSpeed(a, r)
           /\ "impactDetected" \in emitted') => r * 10 > m_minBallTriggerSpeed]_vars

(***************************************************************************)
(* BallTracker trigger                                                     *)
(***************************************************************************)

\* C30: BallTracker enters TRIGGERED, and emits hitDetected, only from ARMED
\* and only on a frame after the 10th since arming that shows camera motion
\* in the ball zone and, when a radar is attached and connected, a radar
\* speed above 5 mph; a fast radar reading without camera motion does not
\* trigger, and without a connected radar camera motion alone does.
C30_TriggerNeedsCameraMotion ==
    /\ [][(m_state' = "TRIGGERED" /\ m_state # "TRIGGERED") => m_state = "ARMED"]_vars
    /\ [][("hitDetected" \in trackerSignals' /\ trackerSignals' # trackerSignals)
              => (m_state = "ARMED" /\ m_state' = "TRIGGERED")]_vars
    /\ [][\A f \in TrackerFrames :
            (m_state = "ARMED" /\ ProcessFrame(f)) =>
                /\ m_state' = "TRIGGERED" =>
                      /\ ~f.empty
                      /\ m_framesSinceArmed' > 10
                      /\ f.motion
                      /\ f.radarConnected => f.radarFast
                      /\ "hitDetected" \in trackerSignals'
                /\ (~f.empty /\ m_framesSinceArmed' > 10 /\ f.motion /\ ~f.radarConnected)
                      => m_state' = "TRIGGERED"
                /\ (~f.empty /\ m_framesSinceArmed' > 10 /\ f.motion /\ f.radarFast)
                      => m_state' = "TRIGGERED"
                /\ ~f.motion => m_state' = "ARMED"]_vars

\* the tracker triggered on the 12th frame since arming, one frame after the
\* first on which it could have
C30_Witness ==
    /\ m_state = "TRIGGERED"
    /\ "hitDetected" \in trackerSignals
    /\ m_framesSinceArmed = 12
    /\ Len(m_trackedPositions) = PreTriggerFrames

(***************************************************************************)
(* Armed flag of the ball zone state machine                               *)
(***************************************************************************)

\* C35: the flag isSystemArmed reports is true exactly when the zone state is
\* READY; it is false in NO_BALL, BALL_OUT_OF_ZONE, BALL_IN_ZONE_MOVING,
\* BALL_IN_ZONE_STABLE, IMPACT_DETECTED and POST_IMPACT.
C35_ArmedExactlyWhenReady == m_isArmed <=> m_ballZoneState = "READY"

(***************************************************************************)
(* Exposure controller reset                                               *)
(***************************************************************************)

\* C38: after reset() the controller is in the state of a freshly constructed
\* controller with the same zone and limits, and so answers every later
\* update like one: shutter 800, gain 10, auto mode, an empty brightness
\* history, the default target brightness and no pending rate limit,
\* whatever presets or adjustments came before.
C38_ResetLikeFresh ==
    [][ExposureReset =>
          /\ m_current_shutter' = DefaultShutter
          /\ m_current_gain' = DefaultGain
          /\ m_auto_enabled'
          /\ m_current_mode' = "AUTO"
          /\ m_history_count' = 0
          /\ m_history_index' = 0
          /\ m_brightness_history' = [i \in 1..HISTORY_SIZE |-> 0]
          /\ m_target_ideal' = DefaultTargetIdeal
          /\ sinceAdjustment' = MinAdjustmentIntervalMs]_vars

(***************************************************************************)
(* The radar impact flag between the radar slot and the capture thread     *)
(***************************************************************************)

\* C31: no radar impact notification is erased before the capture loop has
\* evaluated it against a frame: whenever the capture thread stores false
\* into the impact flag (lines 295 and 307), at least one frame has loaded
\* the flag since the latest notification set it.
C31_NoNotificationErased == [][CL_StoreImpact => impactAge >= 1]_vars

\* C32: while frames keep arriving, an impact notification that finds a ball
\* locked is eventually resolved (captured shot or practice swing) and the
\* impact flag cleared, also when the ball is no longer detected or is more
\* than 50 pixels from its locked position.
C32_ImpactEventuallyResolved ==
    (m_isRunning /\ pc = "top" /\ ballLocked /\ m_kld2ImpactDetected)
        ~> ~m_kld2ImpactDetected

(***************************************************************************)
(* KLD2Manager: what each operation leaves alone                           *)
(***************************************************************************)
SwingCleared == ~m_inSwing' /\ m_maxClubSpeed' = 0 /\ ~m_ballDetected'

\* C40: setTriggerMode to a different mode clears the in-swing flag, the peak
\* club speed and the ball latch, and nothing but a reading, a mode change or
\* stop changes them; a reading in ball mode leaves the club swing state
\* alone, a reading in club mode leaves the ball latch alone, a reading under
\* any other mode string emits no trigger signal and changes no latch; stop()
\* on a running manager clears all three.
C40_ModeFrames ==
    [][/\ \A mode \in TriggerModeStrings : SetTriggerMode(mode) => SwingCleared
       /\ m_triggerMode' = m_triggerMode =>
            \/ UNCHANGED <<m_inSwing, m_maxClubSpeed, m_ballDetected>>
            \/ \E a \in ApproachSpeeds, r \in RecedeSpeeds : ProcessSpeed(a, r)
            \/ KLD2Stop
       /\ \A a \in ApproachSpeeds, r \in RecedeSpeeds :
            ProcessSpeed(a, r) =>
              /\ m_triggerMode = "ball" => UNCHANGED <<m_inSwing, m_maxClubSpeed>>
              /\ m_triggerMode = "club" => UNCHANGED m_ballDetected
              /\ m_triggerMode \notin Modes =>
                   /\ emitted' \cap DetectionSignals = {}
                   /\ UNCHANGED <<m_inSwing, m_maxClubSpeed, m_ballDetected>>
       /\ (KLD2Stop /\ kld2_isRunning) => SwingCleared]_vars

\* a reading with both speeds present has been processed under the mode
\* string "both", and no swing has started
C40_Witness ==
    /\ kld2_isRunning
    /\ m_triggerMode = "both"
    /\ emitted = {"clubSpeedUpdated", "ballSpeedUpdated"}
    /\ ~m_inSwing
    /\ ~m_ballDetected

(***************************************************************************)
(* KLD2Radar::processLine against KLD2Manager::processSpeed                *)
(***************************************************************************)

\* C39: for the same trigger mode, thresholds and readings, processLine
\* counts an impact on exactly the readings on which processSpeed emits
\* impactDetected, and after every reading both hold the same in-swing flag,
\* peak club speed and ball latch.
C39_SameTriggers ==
    /\ [](/\ inSwing_ = m_inSwing
          /\ maxClubSpeed_ = m_maxClubSpeed
          /\ ballDetected_ = m_ballDetected)
    /\ [][\A a \in ApproachSpeeds, r \in RecedeSpeeds :
            LockstepReading(a, r) =>
              (impactsDetected_' = impactsDetected_ + 1 <=> "impactDetected" \in emitted')]_vars

(***************************************************************************)
(* TrajectoryTracker                                                       *)
(***************************************************************************)

\* C36: the angles and speed trackingStopped carries are derived from the
\* points of the session being stopped only (zero for fewer than 3 points,
\* never an earlier session's values); the trajectory never holds more than
\* 100 points; updateTracking while not tracking returns false and changes
\* nothing.
C36_MetricsOfThisSession ==
    /\ [](Len(m_trajectoryPoints) <= MAX_TRAJECTORY_POINTS)
    /\ [][/\ StopTracking => trackingStopped' = MetricsOf(m_trajectoryPoints)
          /\ \A point \in NextPoints :
                (UpdateTracking(point) /\ ~m_isTracking) =>
                    /\ updateReturned' = "false"
                    /\ UNCHANGED <<m_isTracking, m_trajectoryPoints, m_launchAngleVertical,
                                   m_launchAngleHorizontal, m_ballSpeedMps,
                                   m_launchMetricsCalculated>>]_vars

(***************************************************************************)
(* BallDetector detection history                                          *)
(***************************************************************************)

\* C37: every trackBall call that returns true adds exactly one entry to the
\* detection history, with or without background subtraction; the history
\* is ordered newest first, never holds more than 50 entries, and reset
\* empties it.
C37_OneEntryPerDetection ==
    /\ [](/\ Len(m_detectionHistory) <= MAX_HISTORY
          /\ \A i \in 1..(Len(m_detectionHistory) - 1) :
                m_detectionHistory[i] >= m_detectionHistory[i + 1])
    /\ [][/\ \A finding \in FrameFindings :
                (TrackBall(finding) /\ trackBallReturned' = "true") =>
                    m_detectionHistory' =
                        addToHistory(m_detectionHistory, trackBallFrames + 1)
          /\ DetReset => m_detectionHistory' = <<>>]_vars

(***************************************************************************)
(* BallTracker state machine                                               *)
(***************************************************************************)
CompletionSignals == {"trackingComplete", "trajectoryReady"}

\* the step is a processFrame that ran the analysis: the timer was stopped
\* after setState(ANALYZING) and analyzeTrajectory emitted both signals
ThroughAnalyzing ==
    /\ \E f \in TrackerFrames : ProcessFrame(f)
    /\ m_state \in {"TRIGGERED", "TRACKING"}
    /\ ~timerActive'
    /\ trackerSignals' = CompletionSignals

\* C33: the state changes only along IDLE -> ARMED -> TRIGGERED -> TRACKING
\* -> ANALYZING -> COMPLETE (TRIGGERED may go to ANALYZING directly), to IDLE
\* through disarm, reset or a failure, and to ARMED through a successful
\* armTracking; COMPLETE is entered only by the analysis that follows
\* ANALYZING; trackingComplete and trajectoryReady are emitted together,
\* once, by the step that enters COMPLETE; the process timer is stopped in
\* IDLE, ANALYZING and COMPLETE, and a processFrame in these states changes
\* neither the state nor the trajectory.
C33_StateOrder ==
    /\ [](m_state \in {"IDLE", "ANALYZING", "COMPLETE"} => ~timerActive)
    /\ [][/\ m_state' # m_state =>
               \/ /\ m_state' = "IDLE"
                  /\ \/ DisarmTracking
                     \/ ResetTrackerTracking
                     \/ /\ \E f \in TrackerFrames : ProcessFrame(f)
                        /\ trackerSignals' = {"trackingFailed"}
               \/ m_state' = "ARMED" /\ ArmTracking(TRUE)
               \/ m_state = "ARMED" /\ m_state' = "TRIGGERED"
               \/ m_state = "TRIGGERED" /\ m_state' = "TRACKING"
               \/ m_state \in {"TRIGGERED", "TRACKING"} /\ m_state' = "ANALYZING"
               \/ m_state' = "COMPLETE" /\ ThroughAnalyzing
          /\ (m_state' = "COMPLETE" /\ m_state # "COMPLETE") =>
                trackerSignals' = CompletionSignals
          /\ ~(m_state' = "COMPLETE" /\ m_state # "COMPLETE") =>
                \/ trackerSignals' = trackerSignals
                \/ trackerSignals' \cap CompletionSignals = {}
          /\ \A f \in TrackerFrames :
                (ProcessFrame(f) /\ m_state \in {"IDLE", "ANALYZING", "COMPLETE"}) =>
                    UNCHANGED <<m_state, m_trackedPositions>>]_vars

\* a session went through to COMPLETE: both signals emitted, the timer stopped
C33_Witness ==
    /\ m_state = "COMPLETE"
    /\ trackerSignals = CompletionSignals
    /\ ~timerActive
    /\ Len(m_trackedPositions) >= m_minTrackingFrames

\* C34: in every reachable state the trajectory holds at most
\* m_maxTrackingFrames positions, whatever minimum and maximum are
\* configured, and its frame numbers are strictly increasing, the
\* pre-trigger entries included; the pre-trigger buffer never exceeds
\* BUFFER_SIZE frames; armTracking and resetTracking leave the trajectory and
\* the buffer empty.
C34_TrajectoryBounded ==
    /\ [](/\ Len(m_trackedPositions) <= m_maxTrackingFrames
          /\ \A i \in 1..(Len(m_trackedPositions) - 1) :
                m_trackedPositions[i].frameNumber < m_trackedPositions[i + 1].frameNumber
          /\ frameBufferSize <= BUFFER_SIZE)
    /\ [][(ArmTracking(TRUE) \/ ResetTrackerTracking) =>
            (m_trackedPositions' = <<>> /\ frameBufferSize' = 0)]_vars

====
